---- MODULE Spec2Model ----
(***************************************************************************)
(* The LiquidityManager facade of ldk-lsp-client                           *)
(* (src/transport/message_handler.rs) with the LSPS2 message types of      *)
(* src/jit_channel/msgs.rs.  The message codec, the event queue and the    *)
(* protocol handlers live in modules that the facade only calls; they are  *)
(* modelled from the specification's description of them.                  *)
(***************************************************************************)
EXTENDS Integers, Sequences, FiniteSets, TLC

\* ------------------------------------------------------------------ bounds
NumPeers == 2
MaxRequests == 2
MaxOutputs == 2
MaxHeight == 2
NumBlocks == 2
NumWaiters == 2
HeightBits == 4

Peers == 1..NumPeers
RequestIds == 1..MaxRequests
UserChannelIds == {1}
Scids == {1}
Waiters == 1..NumWaiters

NoId == 0
NoMethod == "none"

\* --------------------------------------------------------- method names
LSPS0_LISTPROTOCOLS_METHOD_NAME == "lsps0.list_protocols"
LSPS2_GET_VERSIONS_METHOD_NAME == "lsps2.get_versions"
LSPS2_GET_INFO_METHOD_NAME == "lsps2.get_info"
LSPS2_BUY_METHOD_NAME == "lsps2.buy"
LSPS_INVALID_NOTIFICATION == "invalid"

KnownMethods ==
  { LSPS0_LISTPROTOCOLS_METHOD_NAME, LSPS2_GET_VERSIONS_METHOD_NAME,
    LSPS2_GET_INFO_METHOD_NAME, LSPS2_BUY_METHOD_NAME }

\* --------------------------------------------------------------- LSPSMessage
\* variant: "Invalid" | "LSPS0" | "LSPS2"; kind: "Request" | "Response";
\* body: the request or response enum variant.
LSPSMessage_Invalid ==
  [variant |-> "Invalid", kind |-> "none", id |-> NoId, body |-> "none"]

LSPS0Message(kind, id, body) ==
  [variant |-> "LSPS0", kind |-> kind, id |-> id, body |-> body]

LSPS2Message(kind, id, body) ==
  [variant |-> "LSPS2", kind |-> kind, id |-> id, body |-> body]

LSPS2Request == {"GetVersions", "GetInfo", "Buy"}
LSPS2Response == {"GetVersions", "GetInfo", "GetInfoError", "Buy", "BuyError"}

\* LSPS2Request::method
method(request) ==
  CASE request = "GetVersions" -> LSPS2_GET_VERSIONS_METHOD_NAME
    [] request = "GetInfo" -> LSPS2_GET_INFO_METHOD_NAME
    [] request = "Buy" -> LSPS2_BUY_METHOD_NAME

\* LSPSMessage::get_request_id_and_method: Some((id, method)) for a request,
\* None (NoId) for anything else.
get_request_id_and_method(msg) ==
  IF msg.kind = "Request"
  THEN [id |-> msg.id,
        method |-> IF msg.variant = "LSPS0" THEN LSPS0_LISTPROTOCOLS_METHOD_NAME
                   ELSE method(msg.body)]
  ELSE [id |-> NoId, method |-> NoMethod]

\* ------------------------------------------------------------ wire payloads
\* A JSON-RPC envelope: id (NoId when absent), method (NoMethod when
\* absent), which member carries the body, and the shape of that body.
Payload(id, meth, member, shape) ==
  [id |-> id, method |-> meth, member |-> member, shape |-> shape]

GarbagePayload == Payload(NoId, NoMethod, "none", "malformed")

\* serde_json::to_string(&lsps_message)
Encode(msg) ==
  CASE msg.variant = "Invalid" ->
         Payload(NoId, LSPS_INVALID_NOTIFICATION, "params", "none")
    [] msg.kind = "Request" ->
         Payload(msg.id, get_request_id_and_method(msg).method, "params", msg.body)
    [] msg.kind = "Response" ->
         IF msg.body \in {"GetInfoError", "BuyError", "ListProtocolsError"}
         THEN Payload(msg.id, NoMethod, "error", "Error")
         ELSE Payload(msg.id, NoMethod, "result", msg.body)

\* The body a request of the method carries, and the response variants of it.
BodyOf(meth) ==
  CASE meth = LSPS0_LISTPROTOCOLS_METHOD_NAME -> "ListProtocols"
    [] meth = LSPS2_GET_VERSIONS_METHOD_NAME -> "GetVersions"
    [] meth = LSPS2_GET_INFO_METHOD_NAME -> "GetInfo"
    [] meth = LSPS2_BUY_METHOD_NAME -> "Buy"

ErrorBodyOf(meth) ==
  CASE meth = LSPS0_LISTPROTOCOLS_METHOD_NAME -> "ListProtocolsError"
    [] meth = LSPS2_GET_VERSIONS_METHOD_NAME -> "none"
    [] meth = LSPS2_GET_INFO_METHOD_NAME -> "GetInfoError"
    [] meth = LSPS2_BUY_METHOD_NAME -> "BuyError"

MessageOf(meth, kind, id, body) ==
  IF meth = LSPS0_LISTPROTOCOLS_METHOD_NAME
  THEN LSPS0Message(kind, id, body)
  ELSE LSPS2Message(kind, id, body)

RemoveKey(map, k) == [x \in (DOMAIN map) \ {k} |-> map[x]]

DecodeErr(map) == [ok |-> FALSE, msg |-> LSPSMessage_Invalid, map |-> map]
DecodeOk(msg, map) == [ok |-> TRUE, msg |-> msg, map |-> map]

\* LSPSMessage::from_str_with_id_map(payload, &mut map): the decoded message
\* or a decode error, and the map as the call leaves it.
from_str_with_id_map(p, map) ==
  CASE p.method # NoMethod /\ p.id # NoId ->
         IF p.method \in KnownMethods /\ p.member = "params"
            /\ p.shape = BodyOf(p.method)
         THEN DecodeOk(MessageOf(p.method, "Request", p.id, p.shape), map)
         ELSE DecodeErr(map)
    [] p.method # NoMethod /\ p.id = NoId ->
         IF p.method = LSPS_INVALID_NOTIFICATION
         THEN DecodeOk(LSPSMessage_Invalid, map)
         ELSE DecodeErr(map)
    [] p.method = NoMethod /\ p.id # NoId ->
         IF p.id \in DOMAIN map
         THEN LET meth == map[p.id]
                  rest == RemoveKey(map, p.id)
              IN  IF p.member = "result" /\ p.shape = BodyOf(meth)
                  THEN DecodeOk(MessageOf(meth, "Response", p.id, p.shape), rest)
                  ELSE IF p.member = "error" /\ p.shape = "Error"
                          /\ ErrorBodyOf(meth) # "none"
                  THEN DecodeOk(MessageOf(meth, "Response", p.id, ErrorBodyOf(meth)), rest)
                  ELSE DecodeErr(rest)
         ELSE DecodeErr(map)
    [] OTHER -> DecodeErr(map)

\* -------------------------------------------------------------------- state
VARIABLES
  provider_config,          \* "none" | "no_jit" | "jit": Option<LiquidityProviderConfig>
  lsps2_message_handler,    \* Option<JITChannelManager>: .some and the manager's tables
  pending_messages,         \* Vec<(PublicKey, LSPSMessage)>
  pending_events,           \* EventQueue: the queue
  waiters,                  \* EventQueue: the callers of wait_next_event
  request_id_to_method_map, \* HashMap<String, String>
  best_block,               \* RwLock<BestBlock>: the record
  best_block_poisoned,      \* RwLock<BestBlock>: poisoned by a panicking writer
  last,                     \* the call that made the last step and what it returned
  sent,                     \* history: every (peer, message) enqueued, in order
  delivered,                \* history: the batches get_and_clear_pending_msg returned
  emitted,                  \* history: every event pushed, in order
  returned,                 \* history: the events handed to the embedder
  chain_tip,                \* history: the embedder's chain tip
  calc                      \* what lies around the facade in a scenario: the
                            \* values a conversion was given and returned,
                            \* the terms issued, the threads and their locks,
                            \* or the two nodes of a connection

vars ==
  << provider_config, lsps2_message_handler, pending_messages, pending_events,
     waiters, request_id_to_method_map, best_block, best_block_poisoned, last,
     sent, delivered, emitted, returned, chain_tip, calc >>

Out(node, msg) == [node_id |-> node, msg |-> msg]
Event(t, peer, ref) == [t |-> t, peer |-> peer, ref |-> ref]
Result(ret, out, evs, st) == [ret |-> ret, out |-> out, evs |-> evs, st |-> st]

EmptyMap == [x \in {} |-> 0]

\* ------------------------------------------------------- protocol handlers
\* LSPS0MessageHandler::handle_message: answers lsps0.list_protocols.
lsps0_handle_message(msg, sender) ==
  IF msg.kind = "Request"
  THEN [ret |-> "Ok",
        out |-> <<Out(sender, LSPS0Message("Response", msg.id, "ListProtocols"))>>]
  ELSE [ret |-> "Ok", out |-> <<>>]

\* JITChannelManager::new
JITChannelManager_new ==
  [some |-> TRUE, channels |-> EmptyMap, requests |-> EmptyMap,
   scids |-> EmptyMap, next_request_id |-> 1]

NoHandler ==
  [some |-> FALSE, channels |-> EmptyMap, requests |-> EmptyMap,
   scids |-> EmptyMap, next_request_id |-> 1]

Channel(peer, state, id) == [peer |-> peer, state |-> state, request_id |-> id]

ChannelsAwaiting(st, sender, id, state) ==
  { c \in DOMAIN st.channels :
      /\ st.channels[c].peer = sender
      /\ st.channels[c].request_id = id
      /\ st.channels[c].state = state }

\* The client's next request on channel c: a fresh request id, the request
\* enqueued, the channel waiting for its response.
ClientRequest(st, c, peer, body, state) ==
  Result("Ok",
         <<Out(peer, LSPS2Message("Request", st.next_request_id, body))>>,
         <<>>,
         [st EXCEPT !.channels = (c :> Channel(peer, state, st.next_request_id)) @@ @,
                    !.next_request_id = @ + 1])

ClientResponse(st, msg, sender, from, onOk) ==
  LET cs == ChannelsAwaiting(st, sender, msg.id, from)
  IN  IF cs = {}
      THEN Result("LightningError", <<>>, <<>>, st)
      ELSE onOk[CHOOSE c \in cs : TRUE]

\* JITChannelManager::handle_message
jit_handle_message(st, msg, sender) ==
  LET key == <<sender, msg.id>>
      fail == [c \in DOMAIN st.channels |->
                 Result("Ok", <<>>, <<Event("Failed", sender, c)>>,
                        [st EXCEPT !.channels = RemoveKey(@, c)])]
  IN
  CASE msg.kind = "Request" /\ msg.body = "GetVersions" ->
         Result("Ok", <<Out(sender, LSPS2Message("Response", msg.id, "GetVersions"))>>,
                <<>>, st)
    [] msg.kind = "Request" /\ msg.body = "GetInfo" ->
         Result("Ok", <<>>, <<Event("GetInfo", sender, msg.id)>>,
                [st EXCEPT !.requests = (key :> "AwaitingMenu") @@ @])
    [] msg.kind = "Request" /\ msg.body = "Buy" ->
         Result("Ok", <<>>, <<Event("BuyRequest", sender, msg.id)>>,
                [st EXCEPT !.requests = (key :> "AwaitingScid") @@ @])
    [] msg.kind = "Response" /\ msg.body = "GetVersions" ->
         ClientResponse(st, msg, sender, "AwaitingVersions",
           [c \in DOMAIN st.channels |->
              ClientRequest(st, c, sender, "GetInfo", "AwaitingInfo")])
    [] msg.kind = "Response" /\ msg.body = "GetInfo" ->
         ClientResponse(st, msg, sender, "AwaitingInfo",
           [c \in DOMAIN st.channels |->
              Result("Ok", <<>>, <<Event("GetInfoResponse", sender, c)>>,
                     [st EXCEPT !.channels[c].state = "MenuOffered"])])
    [] msg.kind = "Response" /\ msg.body = "GetInfoError" ->
         ClientResponse(st, msg, sender, "AwaitingInfo", fail)
    [] msg.kind = "Response" /\ msg.body = "Buy" ->
         ClientResponse(st, msg, sender, "AwaitingBuy",
           [c \in DOMAIN st.channels |->
              Result("Ok", <<>>, <<Event("InvoiceParametersReady", sender, c)>>,
                     [st EXCEPT !.channels[c].state = "AwaitingPayment"])])
    [] msg.kind = "Response" /\ msg.body = "BuyError" ->
         ClientResponse(st, msg, sender, "AwaitingBuy", fail)

\* JITChannelManager::create_invoice
jit_create_invoice(st, peer, user_channel_id) ==
  ClientRequest(st, user_channel_id, peer, "GetVersions", "AwaitingVersions")

Misuse(st) == Result("APIMisuseError", <<>>, <<>>, st)

\* JITChannelManager::opening_fee_params_generated
jit_opening_fee_params_generated(st, peer, request_id) ==
  LET key == <<peer, request_id>>
  IN  IF key \in DOMAIN st.requests /\ st.requests[key] = "AwaitingMenu"
      THEN Result("Ok", <<Out(peer, LSPS2Message("Response", request_id, "GetInfo"))>>,
                  <<>>, [st EXCEPT !.requests = RemoveKey(@, key)])
      ELSE Misuse(st)

\* JITChannelManager::opening_fee_params_selected
jit_opening_fee_params_selected(st, peer, channel_id) ==
  IF /\ channel_id \in DOMAIN st.channels
     /\ st.channels[channel_id].peer = peer
     /\ st.channels[channel_id].state = "MenuOffered"
  THEN ClientRequest(st, channel_id, peer, "Buy", "AwaitingBuy")
  ELSE Misuse(st)

\* JITChannelManager::invoice_parameters_generated
jit_invoice_parameters_generated(st, peer, request_id, scid) ==
  LET key == <<peer, request_id>>
  IN  IF key \in DOMAIN st.requests /\ st.requests[key] = "AwaitingScid"
      THEN Result("Ok", <<Out(peer, LSPS2Message("Response", request_id, "Buy"))>>,
                  <<>>,
                  [st EXCEPT !.requests = RemoveKey(@, key),
                             !.scids = (scid :> [peer |-> peer, state |-> "AwaitingPayment"]) @@ @])
      ELSE Misuse(st)

\* JITChannelManager::htlc_intercepted: amount_ok stands for the fee and
\* expiry validation of the intercepted amounts.
jit_htlc_intercepted(st, scid, amount_ok) ==
  IF scid \in DOMAIN st.scids /\ st.scids[scid].state = "AwaitingPayment"
  THEN IF amount_ok
       THEN Result("Ok", <<>>, <<Event("OpenChannel", st.scids[scid].peer, scid)>>,
                   [st EXCEPT !.scids[scid].state = "AwaitingChannelReady"])
       ELSE Result("Ok", <<>>, <<>>, [st EXCEPT !.scids = RemoveKey(@, scid)])
  ELSE Result("Ok", <<>>, <<>>, st)

\* Mutant: the record's state is not looked at.
jit_channel_ready_eager(st, user_channel_id, peer) ==
  IF /\ user_channel_id \in DOMAIN st.scids
     /\ st.scids[user_channel_id].peer = peer
  THEN Result("Ok", <<>>, <<>>, [st EXCEPT !.scids = RemoveKey(@, user_channel_id)])
  ELSE Result("Ok", <<>>, <<>>, st)

\* JITChannelManager::channel_ready: the record is found by the
\* user_channel_id the OpenChannel event carried (the event's ref); any
\* other id is ignored.
jit_channel_ready(st, user_channel_id, peer) ==
  IF /\ user_channel_id \in DOMAIN st.scids
     /\ st.scids[user_channel_id].peer = peer
     /\ st.scids[user_channel_id].state = "AwaitingChannelReady"
  THEN Result("Ok", <<>>, <<>>, [st EXCEPT !.scids = RemoveKey(@, user_channel_id)])
  ELSE Result("Ok", <<>>, <<>>, st)

\* ------------------------------------------------------------- event queue
\* Mutant: a push notifies nobody.
NotifyNone(w) == { w }

\* Condvar::notify_one: one of the callers asleep in wait_next_event, if any,
\* is woken.
NotifyOne(w) ==
  IF \E t \in Waiters : w[t] = "sleeping"
  THEN { [w EXCEPT ![t] = "woken"] : t \in { u \in Waiters : w[u] = "sleeping" } }
  ELSE { w }

RECURSIVE NotifyEach(_, _)
NotifyEach(ws, n) ==
  IF n = 0 THEN ws ELSE NotifyEach(UNION { NotifyOne(w) : w \in ws }, n - 1)

\* EventQueue::enqueue, once for each event of evs: the queue after the pushes.
EventQueue_enqueue(queue, evs) == queue \o evs

\* EventQueue::get_and_clear_pending_events: the batch returned and the
\* queue left.
EventQueue_get_and_clear_pending_events(queue) ==
  [events |-> queue, queue |-> <<>>]

\* EventQueue::wait_next_event, each time the caller holds the queue's lock:
\* it takes the first event, or finds the queue empty and waits on the
\* condition variable.
EventQueue_wait_next_event(queue) ==
  IF queue = <<>>
  THEN [blocked |-> TRUE, event |-> Event("none", 0, 0), queue |-> queue]
  ELSE [blocked |-> FALSE, event |-> Head(queue), queue |-> Tail(queue)]

\* ------------------------------------------------------------------- facade
APIMisuse(st) == Result("APIMisuseError", <<>>, <<>>, st)

\* LiquidityManager::jit_channel_create_invoice
jit_channel_create_invoice(h, counterparty_node_id, user_channel_id) ==
  IF h.some
  THEN [jit_create_invoice(h, counterparty_node_id, user_channel_id)
          EXCEPT !.ret = "Ok"]
  ELSE APIMisuse(h)

\* Mutant: without a handler the response is enqueued all the same.
opening_fee_params_generated_unchecked(h, counterparty_node_id, request_id) ==
  IF h.some
  THEN jit_opening_fee_params_generated(h, counterparty_node_id, request_id)
  ELSE Result("Ok",
              <<Out(counterparty_node_id, LSPS2Message("Response", request_id, "GetInfo"))>>,
              <<>>, h)

\* LiquidityManager::opening_fee_params_generated
opening_fee_params_generated(h, counterparty_node_id, request_id) ==
  IF h.some
  THEN jit_opening_fee_params_generated(h, counterparty_node_id, request_id)
  ELSE APIMisuse(h)

\* LiquidityManager::opening_fee_params_selected
opening_fee_params_selected(h, counterparty_node_id, channel_id) ==
  IF h.some
  THEN jit_opening_fee_params_selected(h, counterparty_node_id, channel_id)
  ELSE APIMisuse(h)

\* LiquidityManager::invoice_parameters_generated
invoice_parameters_generated(h, counterparty_node_id, request_id, scid) ==
  IF h.some
  THEN jit_invoice_parameters_generated(h, counterparty_node_id, request_id, scid)
  ELSE APIMisuse(h)

\* Mutant: without a handler the call pushes an event.
htlc_intercepted_unchecked(h, scid, amount_ok) ==
  IF h.some
  THEN jit_htlc_intercepted(h, scid, amount_ok)
  ELSE Result("Ok", <<>>, <<Event("OpenChannel", 1, scid)>>, h)

\* LiquidityManager::htlc_intercepted
htlc_intercepted(h, scid, amount_ok) ==
  IF h.some
  THEN jit_htlc_intercepted(h, scid, amount_ok)
  ELSE Result("Ok", <<>>, <<>>, h)

\* LiquidityManager::channel_ready
channel_ready(h, user_channel_id, counterparty_node_id) ==
  IF h.some
  THEN jit_channel_ready(h, user_channel_id, counterparty_node_id)
  ELSE Result("Ok", <<>>, <<>>, h)

\* Mutant: a received Invalid is answered with an Invalid.
handle_lsps_message_echoing(h, msg, sender_node_id) ==
  CASE msg.variant = "Invalid" ->
         Result("LightningError", <<Out(sender_node_id, LSPSMessage_Invalid)>>, <<>>, h)
    [] msg.variant = "LSPS0" ->
         LET r == lsps0_handle_message(msg, sender_node_id)
         IN  Result(r.ret, r.out, <<>>, h)
    [] msg.variant = "LSPS2" ->
         IF h.some
         THEN jit_handle_message(h, msg, sender_node_id)
         ELSE Result("LightningError", <<>>, <<>>, h)

\* Mutant: an LSPS2 message without a handler is answered like a decode
\* failure.
handle_lsps_message_replying(h, msg, sender_node_id) ==
  CASE msg.variant = "Invalid" ->
         Result("LightningError", <<>>, <<>>, h)
    [] msg.variant = "LSPS0" ->
         LET r == lsps0_handle_message(msg, sender_node_id)
         IN  Result(r.ret, r.out, <<>>, h)
    [] msg.variant = "LSPS2" ->
         IF h.some
         THEN jit_handle_message(h, msg, sender_node_id)
         ELSE Result("Ok", <<Out(sender_node_id, LSPSMessage_Invalid)>>, <<>>, h)

\* LiquidityManager::handle_lsps_message
handle_lsps_message(h, msg, sender_node_id) ==
  CASE msg.variant = "Invalid" ->
         Result("LightningError", <<>>, <<>>, h)
    [] msg.variant = "LSPS0" ->
         LET r == lsps0_handle_message(msg, sender_node_id)
         IN  Result(r.ret, r.out, <<>>, h)
    [] msg.variant = "LSPS2" ->
         IF h.some
         THEN jit_handle_message(h, msg, sender_node_id)
         ELSE Result("LightningError", <<>>, <<>>, h)

\* LiquidityManager::enqueue_message
enqueue_message(pending_msgs, node_id, msg) ==
  Append(pending_msgs, Out(node_id, msg))

RECURSIVE EnqueueAll(_, _)
EnqueueAll(pending_msgs, out) ==
  IF out = <<>> THEN pending_msgs
  ELSE EnqueueAll(enqueue_message(pending_msgs, Head(out).node_id, Head(out).msg),
                  Tail(out))

\* Mutant: the decoder's result is unwrapped.
handle_custom_message_unwrapping(h, map, payload, sender_node_id) ==
  LET message == from_str_with_id_map(payload, map)
      r == IF message.ok
           THEN handle_lsps_message(h, message.msg, sender_node_id)
           ELSE Result("panic", <<>>, <<>>, h)
  IN  [ret |-> r.ret, out |-> r.out, evs |-> r.evs, st |-> r.st,
       map |-> message.map, decoded |-> message.ok, msg |-> message.msg]

\* Mutant: the payload is decoded against a copy of the id map.
handle_custom_message_copying(h, map, payload, sender_node_id) ==
  LET message == from_str_with_id_map(payload, map)
      r == IF message.ok
           THEN handle_lsps_message(h, message.msg, sender_node_id)
           ELSE Result("Ok", <<Out(sender_node_id, LSPSMessage_Invalid)>>, <<>>, h)
  IN  [ret |-> r.ret, out |-> r.out, evs |-> r.evs, st |-> r.st,
       map |-> map, decoded |-> message.ok, msg |-> message.msg]

\* Mutant: a decode failure is dropped without a reply.
handle_custom_message_silent(h, map, payload, sender_node_id) ==
  LET message == from_str_with_id_map(payload, map)
      r == IF message.ok
           THEN handle_lsps_message(h, message.msg, sender_node_id)
           ELSE Result("Ok", <<>>, <<>>, h)
  IN  [ret |-> r.ret, out |-> r.out, evs |-> r.evs, st |-> r.st,
       map |-> message.map, decoded |-> message.ok, msg |-> message.msg]

\* CustomMessageHandler::handle_custom_message: the result of the call with
\* the id map as the decoder leaves it.
handle_custom_message(h, map, payload, sender_node_id) ==
  LET message == from_str_with_id_map(payload, map)
      r == IF message.ok
           THEN handle_lsps_message(h, message.msg, sender_node_id)
           ELSE Result("Ok", <<Out(sender_node_id, LSPSMessage_Invalid)>>, <<>>, h)
  IN  [ret |-> r.ret, out |-> r.out, evs |-> r.evs, st |-> r.st,
       map |-> message.map, decoded |-> message.ok, msg |-> message.msg]

RECURSIVE InsertRequests(_, _)
InsertRequests(map, msgs) ==
  IF msgs = <<>> THEN map
  ELSE LET rm == get_request_id_and_method(Head(msgs).msg)
       IN  InsertRequests(IF rm.id # NoId THEN (rm.id :> rm.method) @@ map ELSE map,
                          Tail(msgs))

\* Mutant: the batch is collected back to front.
get_and_clear_pending_msg_reversed(pending_msgs, map) ==
  [batch |-> [i \in 1..Len(pending_msgs) |->
                [node_id |-> pending_msgs[Len(pending_msgs) + 1 - i].node_id,
                 payload |-> Encode(pending_msgs[Len(pending_msgs) + 1 - i].msg)]],
   queue |-> <<>>,
   map |-> InsertRequests(map, pending_msgs)]

\* Mutant: the requests of the batch are not registered.
get_and_clear_pending_msg_unregistered(pending_msgs, map) ==
  [batch |-> [i \in 1..Len(pending_msgs) |->
                [node_id |-> pending_msgs[i].node_id,
                 payload |-> Encode(pending_msgs[i].msg)]],
   queue |-> <<>>,
   map |-> map]

\* CustomMessageHandler::get_and_clear_pending_msg: the batch returned, the
\* queue left and the id map after the inserts.
get_and_clear_pending_msg(pending_msgs, map) ==
  [batch |-> [i \in 1..Len(pending_msgs) |->
                [node_id |-> pending_msgs[i].node_id,
                 payload |-> Encode(pending_msgs[i].msg)]],
   queue |-> <<>>,
   map |-> InsertRequests(map, pending_msgs)]

\* LiquidityManager::get_and_clear_pending_events
get_and_clear_pending_events(queue) ==
  EventQueue_get_and_clear_pending_events(queue)

\* Mutant: the newest event is taken instead of the oldest.
wait_next_event_newest(queue) ==
  IF queue = <<>>
  THEN [blocked |-> TRUE, event |-> Event("none", 0, 0), queue |-> queue]
  ELSE [blocked |-> FALSE, event |-> queue[Len(queue)],
        queue |-> SubSeq(queue, 1, Len(queue) - 1)]

\* LiquidityManager::wait_next_event
wait_next_event(queue) == EventQueue_wait_next_event(queue)

\* ----------------------------------------------------------- chain listener
\* Heights are u32; the model keeps HeightBits bits of them, enough for the
\* wrap-around of `height - 1` at height 0 to land outside 0..MaxHeight.
U32 == 2 ^ HeightBits

\* u32 subtraction in a build without overflow checks
WrappingSub(a, b) == (a - b + U32) % U32

\* Block hashes are 0..NumBlocks, 0 the genesis block; a header's
\* prev_blockhash is fixed by its hash (the blocks form a tree).
BlockHashes == 0..NumBlocks
BlockHeader(hash) ==
  [block_hash |-> hash, prev_blockhash |-> IF hash = 0 THEN -1 ELSE hash \div 2]
Heights == 0..MaxHeight

BestBlock(hash, height) == [block_hash |-> hash, height |-> height]

ChainResult(ret, bb, poisoned) ==
  [ret |-> ret, best_block |-> bb, poisoned |-> poisoned]

\* Confirm::transactions_confirmed
transactions_confirmed(bb, header, height) == bb

\* Confirm::best_block_updated
best_block_updated(bb, header, height) == bb

\* Listen::filtered_block_connected; overflow_checks is the build's choice
\* between panicking and wrapping on `height - 1` at height 0.
filtered_block_connected(bb, poisoned, header, height, overflow_checks) ==
  IF poisoned
  THEN ChainResult("panic", bb, poisoned)
  ELSE IF bb.block_hash # header.prev_blockhash
  THEN ChainResult("panic", bb, poisoned)
  ELSE IF height = 0 /\ overflow_checks
  THEN ChainResult("panic", bb, poisoned)
  ELSE IF bb.height # WrappingSub(height, 1)
  THEN ChainResult("panic", bb, poisoned)
  ELSE ChainResult("Ok",
         best_block_updated(transactions_confirmed(bb, header, height), header, height),
         poisoned)

\* Listen::block_disconnected; a failed assertion unwinds through the write
\* guard and poisons the lock.
block_disconnected(bb, poisoned, header, height, overflow_checks) ==
  IF height = 0 /\ overflow_checks
  THEN ChainResult("panic", bb, poisoned)
  ELSE IF poisoned
  THEN ChainResult("panic", bb, poisoned)
  ELSE IF bb.block_hash # header.block_hash \/ bb.height # height
  THEN ChainResult("panic", bb, TRUE)
  ELSE ChainResult("Ok", BestBlock(header.prev_blockhash, WrappingSub(height, 1)),
                   poisoned)

\* ------------------------------------------------------------ inbound input
AllMessages ==
  { LSPS0Message("Request", id, "ListProtocols") : id \in RequestIds }
  \cup { LSPS0Message("Response", id, b) :
           id \in RequestIds, b \in {"ListProtocols", "ListProtocolsError"} }
  \cup { LSPS2Message("Request", id, b) : id \in RequestIds, b \in LSPS2Request }
  \cup { LSPS2Message("Response", id, b) : id \in RequestIds, b \in LSPS2Response }
  \cup { LSPSMessage_Invalid }

\* What a peer may send: every encoded message, and envelopes no message
\* encodes to.
InboundPayloads ==
  { Encode(m) : m \in AllMessages }
  \cup { GarbagePayload }
  \cup { Payload(id, "lsps9.unknown", "params", "GetInfo") : id \in RequestIds }
  \cup { Payload(id, LSPS2_BUY_METHOD_NAME, "params", "malformed") : id \in RequestIds }
  \cup { Payload(id, NoMethod, "result", "malformed") : id \in RequestIds }

\* --------------------------------------------------------------------- Init
\* LiquidityManager::new
Init ==
  /\ provider_config \in {"none", "no_jit", "jit"}
  /\ lsps2_message_handler =
       IF provider_config = "jit" THEN JITChannelManager_new ELSE NoHandler
  /\ pending_messages = <<>>
  /\ pending_events = <<>>
  /\ waiters = [t \in Waiters |-> "idle"]
  /\ request_id_to_method_map = EmptyMap
  /\ best_block \in {BestBlock(0, 0), BestBlock(1, 1)}
  /\ best_block_poisoned = FALSE
  /\ last = [op |-> "new", ret |-> "Ok"]
  /\ sent = <<>>
  /\ delivered = <<>>
  /\ emitted = <<>>
  /\ returned = <<>>
  /\ chain_tip = [block_hash |-> best_block.block_hash,
                  height |-> best_block.height, run |-> 0]
  /\ calc = [op |-> "none"]

\* ------------------------------------------------------------------ actions
\* A call into a handler or a public operation: its messages are enqueued,
\* its events pushed (each push notifying one waiter), its result returned.
Call(op, r, args) ==
  /\ r.st.next_request_id <= MaxRequests + 1
  /\ lsps2_message_handler' = r.st
  /\ pending_messages' = EnqueueAll(pending_messages, r.out)
  /\ sent' = sent \o r.out
  /\ pending_events' = EventQueue_enqueue(pending_events, r.evs)
  /\ emitted' = emitted \o r.evs
  /\ Len(sent') + Len(emitted') <= MaxOutputs
  /\ waiters' \in NotifyEach({waiters}, Len(r.evs))
  /\ last' = args @@ [op |-> op, ret |-> r.ret]
  /\ UNCHANGED << provider_config, best_block, best_block_poisoned, delivered,
                  returned, chain_tip, calc >>

JitChannelCreateInvoice ==
  \E peer \in Peers, c \in UserChannelIds :
    /\ Call("jit_channel_create_invoice",
            jit_channel_create_invoice(lsps2_message_handler, peer, c),
            [x \in {} |-> 0])
    /\ UNCHANGED request_id_to_method_map

OpeningFeeParamsGenerated ==
  \E peer \in Peers, id \in RequestIds :
    /\ Call("opening_fee_params_generated",
            opening_fee_params_generated(lsps2_message_handler, peer, id),
            [x \in {} |-> 0])
    /\ UNCHANGED request_id_to_method_map

OpeningFeeParamsSelected ==
  \E peer \in Peers, c \in UserChannelIds :
    /\ Call("opening_fee_params_selected",
            opening_fee_params_selected(lsps2_message_handler, peer, c),
            [x \in {} |-> 0])
    /\ UNCHANGED request_id_to_method_map

InvoiceParametersGenerated ==
  \E peer \in Peers, id \in RequestIds, scid \in Scids :
    /\ Call("invoice_parameters_generated",
            invoice_parameters_generated(lsps2_message_handler, peer, id, scid),
            [x \in {} |-> 0])
    /\ UNCHANGED request_id_to_method_map

HtlcIntercepted ==
  \E scid \in Scids, amount_ok \in BOOLEAN :
    /\ Call("htlc_intercepted",
            htlc_intercepted(lsps2_message_handler, scid, amount_ok),
            [x \in {} |-> 0])
    /\ UNCHANGED request_id_to_method_map

ChannelReady ==
  \E c \in Scids, peer \in Peers :
    /\ Call("channel_ready",
            channel_ready(lsps2_message_handler, c, peer),
            [x \in {} |-> 0])
    /\ UNCHANGED request_id_to_method_map

HandleCustomMessage ==
  \E payload \in InboundPayloads, sender \in Peers :
    LET r == handle_custom_message(lsps2_message_handler, request_id_to_method_map,
                                   payload, sender)
    IN  /\ Call("handle_custom_message", r,
                [sender |-> sender, decoded |-> r.decoded,
                 variant |-> r.msg.variant,
                 response_id |-> IF payload.method = NoMethod THEN payload.id ELSE NoId,
                 known_id |-> payload.id \in DOMAIN request_id_to_method_map])
        /\ request_id_to_method_map' = r.map

GetAndClearPendingMsg ==
  LET r == get_and_clear_pending_msg(pending_messages, request_id_to_method_map)
  IN  /\ pending_messages' = r.queue
      /\ request_id_to_method_map' = r.map
      /\ delivered' = delivered \o r.batch
      /\ last' = [op |-> "get_and_clear_pending_msg", ret |-> "Ok"]
      /\ UNCHANGED << provider_config, lsps2_message_handler, pending_events,
                      waiters, best_block, best_block_poisoned, sent, emitted,
                      returned, chain_tip, calc >>

GetAndClearPendingEvents ==
  LET r == get_and_clear_pending_events(pending_events)
  IN  /\ pending_events' = r.queue
      /\ returned' = returned \o r.events
      /\ last' = [op |-> "get_and_clear_pending_events", ret |-> "Ok"]
      /\ UNCHANGED << provider_config, lsps2_message_handler, pending_messages,
                      waiters, request_id_to_method_map, best_block,
                      best_block_poisoned, sent, delivered, emitted, chain_tip, calc >>

\* A caller of wait_next_event holding the queue's lock, on entry (from
\* "idle") or after a wakeup (from "woken").
WaitStep(t, from) ==
  /\ waiters[t] = from
  /\ LET r == wait_next_event(pending_events)
     IN  /\ pending_events' = r.queue
         /\ waiters' = [waiters EXCEPT ![t] = IF r.blocked THEN "sleeping" ELSE "idle"]
         /\ returned' = IF r.blocked THEN returned ELSE Append(returned, r.event)
         /\ last' = [op |-> "wait_next_event",
                     ret |-> IF r.blocked THEN "blocked" ELSE "Ok"]
  /\ UNCHANGED << provider_config, lsps2_message_handler, pending_messages,
                  request_id_to_method_map, best_block, best_block_poisoned,
                  sent, delivered, emitted, chain_tip, calc >>

WaitNextEventCall(t) == WaitStep(t, "idle")
WaitNextEventWake(t) == WaitStep(t, "woken")

\* Whether `height - 1` is compiled with overflow checks shows at height 0
\* alone.
BuildChoices(height) == IF height = 0 THEN BOOLEAN ELSE {TRUE}

ChainCall(op, r, tip, args) ==
  /\ best_block' = r.best_block
  /\ best_block_poisoned' = r.poisoned
  /\ chain_tip' = tip
  /\ last' = args @@ [op |-> op, ret |-> r.ret]
  /\ UNCHANGED << provider_config, lsps2_message_handler, pending_messages,
                  pending_events, waiters, request_id_to_method_map, sent,
                  delivered, emitted, returned, calc >>

\* The embedder connects a block; the call is in chain order when the header
\* builds on the embedder's tip at the next height.
FilteredBlockConnected ==
  \E hash \in BlockHashes \ {0}, height \in Heights :
  \E overflow_checks \in BuildChoices(height) :
    LET header == BlockHeader(hash)
        in_order == /\ header.prev_blockhash = chain_tip.block_hash
                    /\ height = chain_tip.height + 1
    IN  ChainCall("filtered_block_connected",
                  filtered_block_connected(best_block, best_block_poisoned, header,
                                           height, overflow_checks),
                  IF in_order /\ chain_tip.run >= 0
                  THEN [block_hash |-> hash, height |-> height,
                        run |-> chain_tip.run + 1]
                  ELSE [chain_tip EXCEPT !.run = -1],
                  [in_order |-> in_order])

BlockDisconnected ==
  \E hash \in BlockHashes, height \in Heights :
  \E overflow_checks \in BuildChoices(height) :
    LET header == BlockHeader(hash)
    IN  ChainCall("block_disconnected",
                  block_disconnected(best_block, best_block_poisoned, header,
                                     height, overflow_checks),
                  [chain_tip EXCEPT !.run = -1],
                  [in_order |-> FALSE])

\* The facade as the peer manager and the embedder's event loop call it.
Next ==
  \/ JitChannelCreateInvoice
  \/ OpeningFeeParamsGenerated
  \/ OpeningFeeParamsSelected
  \/ InvoiceParametersGenerated
  \/ HtlcIntercepted
  \/ ChannelReady
  \/ HandleCustomMessage
  \/ GetAndClearPendingMsg
  \/ GetAndClearPendingEvents

Spec == Init /\ [][Next]_vars

\* The event queue: inbound requests push events, the embedder's threads
\* drain them or wait for the next one.
NextEvents ==
  \/ HandleCustomMessage
  \/ GetAndClearPendingEvents
  \/ \E t \in Waiters : WaitNextEventCall(t)
  \/ \E t \in Waiters : WaitNextEventWake(t)

SpecEvents == Init /\ [][NextEvents]_vars

\* A woken caller of wait_next_event is scheduled again.
SpecLive ==
  /\ Init
  /\ [][NextEvents]_vars
  /\ \A t \in Waiters : WF_vars(WaitNextEventWake(t))

\* The facade as the embedder's chain source calls it.
NextChain ==
  \/ FilteredBlockConnected
  \/ BlockDisconnected

SpecChain == Init /\ [][NextChain]_vars

\* Inbound messages and the drain of the outbound queue, with the chain
\* source connecting and disconnecting blocks meanwhile.
NextPanic ==
  \/ JitChannelCreateInvoice
  \/ HandleCustomMessage
  \/ GetAndClearPendingMsg
  \/ FilteredBlockConnected
  \/ BlockDisconnected

SpecPanic == Init /\ [][NextPanic]_vars

\* ------------------------------------------------------------------ offers
MaxField == 1
MaxTime == 2
NumSecrets == 2

\* u64/u32::to_be_bytes: the `width` bytes of x, most significant first
RECURSIVE to_be_bytes(_, _)
to_be_bytes(x, width) ==
  IF width = 0 THEN <<>> ELSE Append(to_be_bytes(x \div 256, width - 1), x % 256)

\* A chrono::DateTime<Utc>: whole seconds and tenths of a second; the calendar
\* is left out, the instant is a count of seconds.
DateTimes == [secs : 0..MaxTime, tenths : {0, 5}]

\* d1 is not later than d2
NotAfter(d1, d2) ==
  d1.secs < d2.secs \/ (d1.secs = d2.secs /\ d1.tenths <= d2.tenths)

\* The ASCII decimal digits of n
RECURSIVE Digits(_)
Digits(n) ==
  IF n < 10 THEN << 48 + n >> ELSE Append(Digits(n \div 10), 48 + (n % 10))

\* DateTime<Utc>::to_rfc3339().as_bytes(): the seconds, a fraction only when
\* there is one, and the offset "+00:00"
to_rfc3339(d) ==
  Digits(d.secs)
    \o (IF d.tenths = 0 THEN <<>> ELSE << 46, 48 + d.tenths >>)
    \o << 43, 48, 48, 58, 48, 48 >>

\* Hmac::from_engine(..).into_inner() of HMAC-SHA256, taken as collision-free:
\* the digest stands for the key and the bytes that were fed to the engine.
Hmac(key, input) == key \o input

HexDigits ==
  << "0", "1", "2", "3", "4", "5", "6", "7", "8", "9", "a", "b", "c", "d", "e", "f" >>

\* utils::hex_str: two lowercase hex digits for each byte
RECURSIVE hex_str(_)
hex_str(bytes) ==
  IF bytes = <<>> THEN <<>>
  ELSE << HexDigits[(Head(bytes) \div 16) + 1], HexDigits[(Head(bytes) % 16) + 1] >>
         \o hex_str(Tail(bytes))

\* A promise secret, [u8; 32]
PromiseSecrets == { [i \in 1..32 |-> b] : b \in 1..NumSecrets }

RawOpeningFeeParams ==
  [min_fee_msat : 0..MaxField, proportional : 0..MaxField, valid_until : DateTimes,
   min_lifetime : 0..MaxField, max_client_to_self_delay : 0..MaxField]

OfferFields ==
  {"min_fee_msat", "proportional", "valid_until", "min_lifetime",
   "max_client_to_self_delay"}

\* The bytes fed to the HMAC engine, in the order of the hmac.input calls
PromiseInput(params) ==
  to_be_bytes(params.min_fee_msat, 8)
    \o to_be_bytes(params.proportional, 4)
    \o to_rfc3339(params.valid_until)
    \o to_be_bytes(params.min_lifetime, 4)
    \o to_be_bytes(params.max_client_to_self_delay, 4)

OpeningFeeParams(params, promise) ==
  [min_fee_msat |-> params.min_fee_msat,
   proportional |-> params.proportional,
   valid_until |-> params.valid_until,
   min_lifetime |-> params.min_lifetime,
   max_client_to_self_delay |-> params.max_client_to_self_delay,
   promise |-> promise]

\* Mutant: the fields are fed to the engine in another order.
into_opening_fee_params_reordered(raw, promise_secret) ==
  LET input == to_be_bytes(raw.proportional, 4)
                 \o to_be_bytes(raw.min_fee_msat, 8)
                 \o to_rfc3339(raw.valid_until)
                 \o to_be_bytes(raw.min_lifetime, 4)
                 \o to_be_bytes(raw.max_client_to_self_delay, 4)
  IN  OpeningFeeParams(raw, hex_str(Hmac(promise_secret, input)))

\* Mutant: the engine is keyed with a fixed key instead of the secret given.
into_opening_fee_params_fixed_key(raw, promise_secret) ==
  OpeningFeeParams(raw, hex_str(Hmac([i \in 1..32 |-> 1], PromiseInput(raw))))

\* RawOpeningFeeParams::into_opening_fee_params
into_opening_fee_params(raw, promise_secret) ==
  LET promise_bytes == Hmac(promise_secret, PromiseInput(raw))
      promise == hex_str(promise_bytes)
  IN  OpeningFeeParams(raw, promise)

\* Mutant: the expiry is not looked at.
is_valid_opening_fee_params_unexpiring(fee_params, promise_secret, now) ==
  hex_str(Hmac(promise_secret, PromiseInput(fee_params))) = fee_params.promise

\* utils::is_valid_opening_fee_params at time `now`: the offer has not expired
\* and the promise recomputed under promise_secret is the offer's.
is_valid_opening_fee_params(fee_params, promise_secret, now) ==
  /\ NotAfter(now, fee_params.valid_until)
  /\ hex_str(Hmac(promise_secret, PromiseInput(fee_params))) = fee_params.promise

\* The values a field of an offer can be set to
FieldValues(field) == IF field = "valid_until" THEN DateTimes ELSE 0..MaxField

\* The program as constructed, for the conversions, which read none of it.
InitCalc ==
  /\ Init
  /\ provider_config = "jit"
  /\ best_block = BestBlock(0, 0)

KeepFacade ==
  UNCHANGED << provider_config, lsps2_message_handler, pending_messages,
               pending_events, waiters, request_id_to_method_map, best_block,
               best_block_poisoned, last, sent, delivered, emitted, returned,
               chain_tip >>

\* The LSP's embedder turns a raw offer into an offer.
IntoOpeningFeeParams ==
  \E raw \in RawOpeningFeeParams, promise_secret \in PromiseSecrets :
    /\ calc.op = "none"
    /\ calc' = [op |-> "into_opening_fee_params", raw |-> raw,
                secret |-> promise_secret,
                offer |-> into_opening_fee_params(raw, promise_secret)]
    /\ KeepFacade

\* Whoever carries the offer sets one of its fields and leaves the promise.
SetOfferField ==
  \E field \in OfferFields :
  \E value \in FieldValues(field) :
    /\ calc.op = "into_opening_fee_params"
    /\ calc.offer[field] # value
    /\ calc' = [calc EXCEPT !.op = "set_field", !.offer[field] = value]
    /\ KeepFacade

\* The offer is verified under a secret, at some time.
IsValidOpeningFeeParams ==
  \E promise_secret \in PromiseSecrets, now \in DateTimes :
    /\ calc.op \in {"into_opening_fee_params", "set_field"}
    /\ calc' = [op |-> "is_valid_opening_fee_params", raw |-> calc.raw,
                secret |-> calc.secret, offer |-> calc.offer,
                changed |-> (calc.op = "set_field"),
                key |-> promise_secret, now |-> now,
                valid |-> is_valid_opening_fee_params(calc.offer, promise_secret, now)]
    /\ KeepFacade

NextPromise ==
  \/ IntoOpeningFeeParams
  \/ SetOfferField
  \/ IsValidOpeningFeeParams

SpecPromise == InitCalc /\ [][NextPromise]_vars

\* ------------------------------------------------------------------- SCIDs
\* A short channel id is block : tx_index : vout, most significant first; the
\* model keeps these many bits of each (24, 24 and 16 of a u64).
BlockBits == 4
TxIndexBits == 4
VoutBits == 3

ScidValues == 0..(2 ^ (BlockBits + TxIndexBits + VoutBits) - 1)

\* utils::block_from_scid
block_from_scid(scid) == scid \div (2 ^ (TxIndexBits + VoutBits))

\* utils::tx_index_from_scid
tx_index_from_scid(scid) == (scid \div (2 ^ VoutBits)) % (2 ^ TxIndexBits)

\* utils::vout_from_scid
vout_from_scid(scid) == scid % (2 ^ VoutBits)

\* Mutant: the transaction index and the output index change places.
JitChannelScid_from_swapped(scid) ==
  Digits(block_from_scid(scid)) \o << 120 >>
    \o Digits(vout_from_scid(scid)) \o << 120 >>
    \o Digits(tx_index_from_scid(scid))

\* impl From<u64> for JitChannelScid: format!("{}x{}x{}", block, tx_index, vout)
JitChannelScid_from(scid) ==
  LET block == block_from_scid(scid)
      tx_index == tx_index_from_scid(scid)
      vout == vout_from_scid(scid)
  IN  Digits(block) \o << 120 >> \o Digits(tx_index) \o << 120 >> \o Digits(vout)

\* str::split('x'): the parts of text between the separators
RECURSIVE SplitX(_, _)
SplitX(text, part) ==
  IF text = <<>> THEN << part >>
  ELSE IF Head(text) = 120 THEN << part >> \o SplitX(Tail(text), <<>>)
  ELSE SplitX(Tail(text), Append(part, Head(text)))

RECURSIVE DecimalValue(_, _)
DecimalValue(chars, acc) ==
  IF chars = <<>> THEN acc
  ELSE DecimalValue(Tail(chars), 10 * acc + (Head(chars) - 48))

ParseErr == [ok |-> FALSE, value |-> 0]

\* str::parse::<u64>: an optional plus sign and at least one decimal digit,
\* leading zeros allowed
parse_decimal(chars) ==
  LET digits == IF chars # <<>> /\ Head(chars) = 43 THEN Tail(chars) ELSE chars
  IN  IF digits = <<>> \/ \E i \in 1..Len(digits) : digits[i] \notin 48..57
      THEN ParseErr
      ELSE [ok |-> TRUE, value |-> DecimalValue(digits, 0)]

\* utils::scid_from_human_readable_string: three decimal components, each
\* within its field's width, recomposed
scid_from_human_readable_string(text) ==
  LET parts == SplitX(text, <<>>)
  IN  IF Len(parts) # 3 THEN ParseErr
      ELSE LET block == parse_decimal(parts[1])
               tx_index == parse_decimal(parts[2])
               vout == parse_decimal(parts[3])
           IN  IF ~block.ok \/ ~tx_index.ok \/ ~vout.ok THEN ParseErr
               ELSE IF \/ block.value >= 2 ^ BlockBits
                       \/ tx_index.value >= 2 ^ TxIndexBits
                       \/ vout.value >= 2 ^ VoutBits
               THEN ParseErr
               ELSE [ok |-> TRUE,
                     value |-> block.value * (2 ^ (TxIndexBits + VoutBits))
                                 + tx_index.value * (2 ^ VoutBits) + vout.value]

\* JitChannelScid::to_scid
to_scid(text) == scid_from_human_readable_string(text)

\* Components a peer may write: plain numbers in and beyond every field's
\* width, padded and signed ones, and ones that are no number.
ScidComponents ==
  { Digits(n) : n \in {0, 1, 7, 8, 10, 15, 16} }
  \cup { << 48 >> \o Digits(n) : n \in {0, 1, 10} }
  \cup { << 43, 49 >>, <<>>, << 97 >> }

\* Deserialize for JitChannelScid takes any string.
ScidStrings ==
  { b \o << 120 >> \o t \o << 120 >> \o v :
      b \in ScidComponents, t \in ScidComponents, v \in ScidComponents }
  \cup { << 49, 120, 49 >>, << 49, 120, 49, 120, 49, 120, 49 >> }

JitChannelScidFrom ==
  \E scid \in ScidValues :
    /\ calc.op = "none"
    /\ calc' = [op |-> "JitChannelScid::from", scid |-> scid,
                text |-> JitChannelScid_from(scid)]
    /\ KeepFacade

JitChannelScidDeserialize ==
  \E text \in ScidStrings :
    /\ calc.op = "none"
    /\ calc' = [op |-> "JitChannelScid::deserialize", text |-> text]
    /\ KeepFacade

ToScid ==
  /\ calc.op \in {"JitChannelScid::from", "JitChannelScid::deserialize"}
  /\ calc' = [op |-> "to_scid", of |-> calc, result |-> to_scid(calc.text)]
  /\ KeepFacade

\* The u64 that to_scid returned is made a JitChannelScid again.
JitChannelScidFromParsed ==
  /\ calc.op = "to_scid"
  /\ calc.result.ok
  /\ calc' = [op |-> "JitChannelScid::from(to_scid)", of |-> calc.of,
              scid |-> calc.result.value,
              text |-> JitChannelScid_from(calc.result.value)]
  /\ KeepFacade

NextScid ==
  \/ JitChannelScidFrom
  \/ JitChannelScidDeserialize
  \/ ToScid
  \/ JitChannelScidFromParsed

SpecScid == InitCalc /\ [][NextScid]_vars

\* ---------------------------------------------------------- request bodies
MaxVersion == 1

\* Option<T>
None == [some |-> FALSE]
Some(v) == [some |-> TRUE, value |-> v]

\* serde_json values
JsonNull == [json |-> "null"]
JsonNumber(n) == [json |-> "number", value |-> n]
JsonString(str) == [json |-> "string", value |-> str]
JsonObject(members) == [json |-> "object", members |-> members]

\* Serialize for Option<T> with no attribute on the field: None is null.
SerializeOption(opt, Json(_)) == IF opt.some THEN Json(opt.value) ELSE JsonNull

\* #[derive(Serialize)] struct GetVersionsRequest {}
Serialize_GetVersionsRequest(request) == JsonObject([k \in {} |-> JsonNull])

\* #[derive(Serialize)] struct GetInfoRequest { version, token }
Serialize_GetInfoRequest(request) ==
  JsonObject([k \in {"version", "token"} |->
                IF k = "version" THEN JsonNumber(request.version)
                ELSE SerializeOption(request.token, JsonString)])

\* #[derive(Serialize)] struct OpeningFeeParams: every field, the date as its
\* RFC 3339 text
Serialize_OpeningFeeParams(params) ==
  JsonObject([k \in OfferFields \cup {"promise"} |->
                IF k = "valid_until" THEN JsonString(to_rfc3339(params.valid_until))
                ELSE IF k = "promise" THEN JsonString(params.promise)
                ELSE JsonNumber(params[k])])

\* #[derive(Serialize)] struct BuyRequest { version, opening_fee_params,
\* #[serde(skip_serializing_if = "Option::is_none")] payment_size_msat }
Serialize_BuyRequest(request) ==
  LET always == [k \in {"version", "opening_fee_params"} |->
                   IF k = "version" THEN JsonNumber(request.version)
                   ELSE Serialize_OpeningFeeParams(request.opening_fee_params)]
  IN  JsonObject(IF request.payment_size_msat.some
                 THEN always @@ [k \in {"payment_size_msat"} |->
                                   JsonNumber(request.payment_size_msat.value)]
                 ELSE always)

Versions == 0..MaxVersion
Tokens == { None, Some("token") }
PaymentSizes == { None } \cup { Some(n) : n \in 0..MaxField }
Offers ==
  { into_opening_fee_params(raw, promise_secret) :
      raw \in RawOpeningFeeParams, promise_secret \in PromiseSecrets }

GetVersionsRequests == { [x \in {} |-> 0] }
GetInfoRequests == [version : Versions, token : Tokens]
BuyRequests ==
  [version : Versions, opening_fee_params : Offers, payment_size_msat : PaymentSizes]

\* A request body is serialized for the wire.
SerializeRequest(name, request, json) ==
  /\ calc.op = "none"
  /\ calc' = [op |-> "serialize", type |-> name, request |-> request, json |-> json]
  /\ KeepFacade

SerializeGetVersionsRequest ==
  \E request \in GetVersionsRequests :
    SerializeRequest("GetVersionsRequest", request, Serialize_GetVersionsRequest(request))

SerializeGetInfoRequest ==
  \E request \in GetInfoRequests :
    SerializeRequest("GetInfoRequest", request, Serialize_GetInfoRequest(request))

SerializeBuyRequest ==
  \E request \in BuyRequests :
    SerializeRequest("BuyRequest", request, Serialize_BuyRequest(request))

NextSerialize ==
  \/ SerializeGetVersionsRequest
  \/ SerializeGetInfoRequest
  \/ SerializeBuyRequest

SpecSerialize == InitCalc /\ [][NextSerialize]_vars

\* ------------------------------------------------------------- opening fee
MaxProportional == 3
MaxMinFee == 2
MaxHalfMillions == 4

\* The divisor of the proportional fee, which is in parts per million
PPM_DIVISOR == 1000000

Max(a, b) == IF a >= b THEN a ELSE b

\* The opening fee the client agrees to by opening_fee_params_selected, as its
\* documentation gives it, in the integers of its arguments:
\* max(min_fee_msat, proportional*(payment_size_msat/1_000_000))
agreed_opening_fee(min_fee_msat, proportional, payment_size_msat) ==
  Max(min_fee_msat, proportional * (payment_size_msat \div PPM_DIVISOR))

\* Payment sizes at, just under and just over the multiples of half a million
PaymentSizesMsat ==
  { n \in { k * (PPM_DIVISOR \div 2) + d : k \in 0..MaxHalfMillions, d \in {-1, 0, 1} } :
      n >= 0 }

\* The client settles what fee the offer it selects will cost it.
AgreedOpeningFee ==
  \E min_fee_msat \in 0..MaxMinFee, proportional \in 0..MaxProportional,
     payment_size_msat \in PaymentSizesMsat :
    /\ calc.op = "none"
    /\ calc' = [op |-> "opening_fee", min_fee_msat |-> min_fee_msat,
                proportional |-> proportional,
                payment_size_msat |-> payment_size_msat,
                fee |-> agreed_opening_fee(min_fee_msat, proportional,
                                           payment_size_msat)]
    /\ KeepFacade

NextFee == AgreedOpeningFee

SpecFee == InitCalc /\ [][NextFee]_vars

\* ------------------------------------------------------ intercepted HTLCs
\* utils::compute_opening_fee: the fee an offer asks for a payment, rounded up
compute_opening_fee(payment_size_msat, min_fee_msat, proportional) ==
  Max(min_fee_msat,
      (proportional * payment_size_msat + (PPM_DIVISOR - 1)) \div PPM_DIVISOR)

\* The terms an SCID was issued under: the offer the client bought and the
\* payment size it named, if any.
IssuedTerms ==
  [min_fee_msat : 0..MaxMinFee, proportional : 0..MaxProportional,
   payment_size_msat : { None, Some(PPM_DIVISOR), Some(2 * PPM_DIVISOR) },
   valid_until : { d \in DateTimes : d.tenths = 0 }]

\* Mutant: the offer's expiry is not looked at.
htlc_is_acceptable_unexpiring(terms, inbound_amount_msat, expected_outbound_amount_msat, now) ==
  /\ inbound_amount_msat >= expected_outbound_amount_msat
  /\ inbound_amount_msat - expected_outbound_amount_msat
       >= compute_opening_fee(inbound_amount_msat, terms.min_fee_msat, terms.proportional)
  /\ terms.payment_size_msat.some
       => inbound_amount_msat = terms.payment_size_msat.value

\* JITChannelManager::htlc_intercepted, its validation of the intercepted
\* amounts against the terms of the SCID at time `now`
htlc_is_acceptable(terms, inbound_amount_msat, expected_outbound_amount_msat, now) ==
  /\ inbound_amount_msat >= expected_outbound_amount_msat
  /\ inbound_amount_msat - expected_outbound_amount_msat
       >= compute_opening_fee(inbound_amount_msat, terms.min_fee_msat, terms.proportional)
  /\ terms.payment_size_msat.some
       => inbound_amount_msat = terms.payment_size_msat.value
  /\ NotAfter(now, terms.valid_until)

\* What the manager tells the channel manager to do with the intercepted HTLC
\* of a record it drops: fail it (htlc_intercepted) or forward it
\* (channel_ready).
HtlcEffect(op, before, after, id) ==
  IF id \in DOMAIN before.scids /\ id \notin DOMAIN after.scids
  THEN IF op = "channel_ready" THEN "forward_intercepted_htlc"
       ELSE "fail_intercepted_htlc"
  ELSE "none"

\* The LSP after it issued every SCID of Scids to a client by
\* invoice_parameters_generated; the histories start here.
InitHtlc ==
  /\ Init
  /\ provider_config = "jit"
  /\ best_block = BestBlock(0, 0)

IssuedScids ==
  \E peer \in Peers, terms \in IssuedTerms :
    /\ calc.op = "none"
    /\ lsps2_message_handler' =
         [lsps2_message_handler EXCEPT
            !.scids = [scid \in Scids |-> [peer |-> peer, state |-> "AwaitingPayment"]]]
    /\ calc' = [op |-> "issued", terms |-> [scid \in Scids |-> terms], htlcs |-> <<>>]
    /\ UNCHANGED << provider_config, pending_messages, pending_events, waiters,
                    request_id_to_method_map, best_block, best_block_poisoned, last,
                    sent, delivered, emitted, returned, chain_tip >>

\* A call of the LSP's embedder about an intercepted HTLC: the events pushed,
\* the record kept or dropped, and what the channel manager is told.
HtlcCall(op, r, id, args) ==
  LET effect == HtlcEffect(op, lsps2_message_handler, r.st, id)
  IN  /\ calc.op = "issued"
      /\ lsps2_message_handler' = r.st
      /\ pending_messages' = EnqueueAll(pending_messages, r.out)
      /\ sent' = sent \o r.out
      /\ pending_events' = EventQueue_enqueue(pending_events, r.evs)
      /\ emitted' = emitted \o r.evs
      /\ waiters' \in NotifyEach({waiters}, Len(r.evs))
      /\ calc' = [calc EXCEPT !.htlcs = IF effect = "none" THEN @
                                         ELSE Append(@, [scid |-> id, effect |-> effect])]
      /\ last' = args @@ [op |-> op, ret |-> r.ret, id |-> id, htlc |-> effect,
                          events |-> r.evs,
                          changed |-> (r.st # lsps2_message_handler \/ r.out # <<>>
                                         \/ r.evs # <<>>)]
      /\ UNCHANGED << provider_config, request_id_to_method_map, best_block,
                      best_block_poisoned, delivered, returned, chain_tip >>

\* Inbound amounts: a million msat, one less, and two million
InterceptedAmounts == { PPM_DIVISOR - 1, PPM_DIVISOR, 2 * PPM_DIVISOR }

\* The SCIDs an HTLC may name: the issued ones and one never issued
InterceptedScids == Scids \cup { scid + 1 : scid \in Scids }

HtlcInterceptedAmounts ==
  \E scid \in InterceptedScids, inbound_amount_msat \in InterceptedAmounts,
     fee \in 0..(MaxMinFee + 1), now \in { d \in DateTimes : d.tenths = 0 } :
    LET expected_outbound_amount_msat == inbound_amount_msat - fee
        awaiting == /\ scid \in DOMAIN lsps2_message_handler.scids
                    /\ lsps2_message_handler.scids[scid].state = "AwaitingPayment"
        amount_ok == /\ scid \in DOMAIN calc.terms
                     /\ htlc_is_acceptable(calc.terms[scid], inbound_amount_msat,
                                           expected_outbound_amount_msat, now)
    IN  /\ expected_outbound_amount_msat >= 0
        /\ HtlcCall("htlc_intercepted",
                    htlc_intercepted(lsps2_message_handler, scid, amount_ok),
                    scid,
                    [awaiting |-> awaiting,
                     inbound_amount_msat |-> inbound_amount_msat,
                     expected_outbound_amount_msat |-> expected_outbound_amount_msat,
                     now |-> now])

ChannelReadyFor ==
  \E user_channel_id \in InterceptedScids, peer \in Peers :
    HtlcCall("channel_ready",
             channel_ready(lsps2_message_handler, user_channel_id, peer),
             user_channel_id,
             [peer |-> peer])

NextHtlc ==
  \/ IssuedScids
  \/ HtlcInterceptedAmounts
  \/ ChannelReadyFor

SpecHtlc == InitHtlc /\ [][NextHtlc]_vars

\* ------------------------------------------------------ inbound buy requests
\* The error codes of a refused buy request
LSPS2_BUY_REQUEST_INVALID_VERSION_ERROR_CODE == 1
LSPS2_BUY_REQUEST_INVALID_OPENING_FEE_PARAMS_ERROR_CODE == 2
LSPS2_BUY_REQUEST_PAYMENT_SIZE_TOO_LARGE_ERROR_CODE == 4
\* Mutant: a payment that is too small is refused with the code of one that
\* is too large.
LSPS2_BUY_REQUEST_PAYMENT_SIZE_TOO_SMALL_ERROR_CODE_as_too_large ==
  LSPS2_BUY_REQUEST_PAYMENT_SIZE_TOO_LARGE_ERROR_CODE
LSPS2_BUY_REQUEST_PAYMENT_SIZE_TOO_SMALL_ERROR_CODE == 3

\* The protocol versions both sides implement
SUPPORTED_SPEC_VERSIONS == { 1 }

\* JITChannelsConfig
JITChannelsConfigs ==
  { config \in [promise_secret : PromiseSecrets,
                min_payment_size_msat : 0..MaxField,
                max_payment_size_msat : 0..MaxField] :
      config.min_payment_size_msat <= config.max_payment_size_msat }

\* The error response to a buy request
BuyError(request_id, code) ==
  [code |-> code] @@ LSPS2Message("Response", request_id, "BuyError")

\* JITChannelManager, an inbound buy request at time `now`: the version, the
\* offer and the payment size are validated in this order; a refused request
\* is answered with its error code and leaves no record.
jit_handle_buy_request(st, config, request_id, request, sender, now) ==
  LET key == <<sender, request_id>>
      size == request.payment_size_msat
      error(code) ==
        Result("LightningError", <<Out(sender, BuyError(request_id, code))>>, <<>>,
               [st EXCEPT !.requests = RemoveKey(@, key)])
  IN  IF request.version \notin SUPPORTED_SPEC_VERSIONS
      THEN error(LSPS2_BUY_REQUEST_INVALID_VERSION_ERROR_CODE)
      ELSE IF ~is_valid_opening_fee_params(request.opening_fee_params,
                                           config.promise_secret, now)
      THEN error(LSPS2_BUY_REQUEST_INVALID_OPENING_FEE_PARAMS_ERROR_CODE)
      ELSE IF size.some /\ size.value < config.min_payment_size_msat
      THEN error(LSPS2_BUY_REQUEST_PAYMENT_SIZE_TOO_SMALL_ERROR_CODE)
      ELSE IF size.some /\ size.value > config.max_payment_size_msat
      THEN error(LSPS2_BUY_REQUEST_PAYMENT_SIZE_TOO_LARGE_ERROR_CODE)
      ELSE Result("Ok", <<>>, <<Event("BuyRequest", sender, request_id)>>,
                  [st EXCEPT !.requests = (key :> "AwaitingScid") @@ @])

\* LiquidityManager::handle_lsps_message for a decoded buy request
handle_buy_request(h, config, request_id, request, sender_node_id, now) ==
  IF h.some
  THEN jit_handle_buy_request(h, config, request_id, request, sender_node_id, now)
  ELSE Result("LightningError", <<>>, <<>>, h)

\* A call of the facade in the middle of a flow: the handler's state, the
\* messages enqueued and the events pushed, and `record` as the last call.
FlowCall(r, record) ==
  /\ lsps2_message_handler' = r.st
  /\ pending_messages' = EnqueueAll(pending_messages, r.out)
  /\ sent' = sent \o r.out
  /\ pending_events' = EventQueue_enqueue(pending_events, r.evs)
  /\ emitted' = emitted \o r.evs
  /\ waiters' \in NotifyEach({waiters}, Len(r.evs))
  /\ last' = record @@ [ret |-> r.ret, out |-> r.out, events |-> r.evs]
  /\ UNCHANGED << provider_config, request_id_to_method_map, best_block,
                  best_block_poisoned, delivered, returned, chain_tip >>

\* The LSP is constructed with a JIT configuration.
ConfigureProvider ==
  \E config \in JITChannelsConfigs :
    /\ calc.op = "none"
    /\ calc' = [op |-> "configured", config |-> config]
    /\ KeepFacade

\* The raw offers a buy request echoes: the fee and the expiry vary
BoughtOffers ==
  { raw \in RawOpeningFeeParams :
      raw.min_lifetime = 0 /\ raw.max_client_to_self_delay = 0 }

\* A peer's buy request arrives.
HandleBuyRequest ==
  \E version \in Versions, raw \in BoughtOffers,
     promise_secret \in PromiseSecrets, payment_size_msat \in PaymentSizes,
     sender \in Peers, now \in { d \in DateTimes : d.tenths = 0 } :
    LET request == [version |-> version,
                    opening_fee_params |-> into_opening_fee_params(raw, promise_secret),
                    payment_size_msat |-> payment_size_msat]
    IN  /\ calc.op = "configured"
        /\ calc' = [calc EXCEPT !.op = "buy"]
        /\ FlowCall(handle_buy_request(lsps2_message_handler, calc.config, 1,
                                       request, sender, now),
                    [op |-> "handle_buy_request", id |-> 1, sender |-> sender,
                     request |-> request, issued_under |-> promise_secret,
                     now |-> now])

\* The LSP's embedder answers the buy request with a SCID.
InvoiceParametersGeneratedFor ==
  \E scid \in Scids :
    /\ calc.op = "buy"
    /\ calc' = [calc EXCEPT !.op = "answered"]
    /\ FlowCall(invoice_parameters_generated(lsps2_message_handler, last.sender,
                                             last.id, scid),
                [op |-> "invoice_parameters_generated", id |-> last.id,
                 sender |-> last.sender, request |-> last.request,
                 issued_under |-> last.issued_under, now |-> last.now, refused |-> (last.events = <<>>)])

NextBuy ==
  \/ ConfigureProvider
  \/ HandleBuyRequest
  \/ InvoiceParametersGeneratedFor

SpecBuy == InitCalc /\ [][NextBuy]_vars

\* ------------------------------------------------- client version negotiation
NumChannels == 2

\* The user_channel_ids the client's embedder asks invoices for
ClientChannels == 1..NumChannels

\* The sets of versions a side may support or advertise
VersionSets == SUBSET Versions

Highest(versions) == CHOOSE v \in versions : \A w \in versions : w <= v
Lowest(versions) == CHOOSE v \in versions : \A w \in versions : v <= w

\* Mutant: the lowest common version is selected.
select_version_lowest(supported, versions) ==
  IF supported \cap versions = {} THEN None
  ELSE Some(Lowest(supported \cap versions))

\* The version the client goes on with: the highest it has in common with
\* the LSP, if any.
select_version(supported, versions) ==
  IF supported \cap versions = {} THEN None
  ELSE Some(Highest(supported \cap versions))

GetInfoRequest(request_id, version) ==
  [version |-> version] @@ LSPS2Message("Request", request_id, "GetInfo")

\* JITChannelManager, a get_versions response: the channel waiting for it
\* goes on with the selected version, or fails when there is none.
jit_handle_get_versions_response(st, supported, request_id, versions, sender) ==
  LET cs == ChannelsAwaiting(st, sender, request_id, "AwaitingVersions")
      c == CHOOSE ch \in cs : TRUE
      version == select_version(supported, versions)
  IN  IF cs = {}
      THEN Result("LightningError", <<>>, <<>>, st)
      ELSE IF version.some
      THEN Result("Ok",
                  <<Out(sender, GetInfoRequest(st.next_request_id, version.value))>>,
                  <<>>,
                  [st EXCEPT !.channels[c] =
                               Channel(sender, "AwaitingInfo", st.next_request_id),
                             !.next_request_id = @ + 1])
      ELSE Result("Ok", <<>>, <<Event("Failed", sender, c)>>,
                  [st EXCEPT !.channels = RemoveKey(@, c)])

\* LiquidityManager::handle_lsps_message for a decoded get_versions response
handle_get_versions_response(h, supported, request_id, versions, sender_node_id) ==
  IF h.some
  THEN jit_handle_get_versions_response(h, supported, request_id, versions,
                                        sender_node_id)
  ELSE Result("LightningError", <<>>, <<>>, h)

\* The channel each request id was issued for, after a call
RequestChannels(known, st) ==
  [id \in DOMAIN known \cup { st.channels[c].request_id : c \in DOMAIN st.channels } |->
     IF id \in DOMAIN known THEN known[id]
     ELSE CHOOSE c \in DOMAIN st.channels : st.channels[c].request_id = id]

\* A call on the client: the facade's call, the calls made so far and the
\* channel of each request id issued.
ClientCall(op, r, args) ==
  /\ calc.op = "client"
  /\ calc' = [calc EXCEPT !.called = @ \cup { op },
                          !.requests = RequestChannels(@, r.st)]
  /\ FlowCall(r, args @@ [op |-> op])

\* The request ids a response may carry: those the channels wait on, and
\* one not issued yet
AwaitedIds(st) ==
  { st.channels[c].request_id : c \in DOMAIN st.channels } \cup { st.next_request_id }

\* The client is constructed, supporting some versions.
ConstructClient ==
  \E supported \in VersionSets \ { {} } :
    /\ calc.op = "none"
    /\ calc' = [op |-> "client", supported |-> supported, called |-> {},
                requests |-> EmptyMap]
    /\ KeepFacade

\* The embedder asks for an invoice, under the next user_channel_id.
CreateInvoice ==
  \E user_channel_id \in ClientChannels, peer \in Peers :
    /\ calc.op = "client"
    /\ user_channel_id =
         Cardinality({ calc.requests[id] : id \in DOMAIN calc.requests }) + 1
    /\ ClientCall("jit_channel_create_invoice",
                  jit_channel_create_invoice(lsps2_message_handler, peer,
                                             user_channel_id),
                  [user_channel_id |-> user_channel_id, peer |-> peer])

HandleGetVersionsResponse ==
  \E request_id \in AwaitedIds(lsps2_message_handler),
     versions \in VersionSets, sender \in Peers :
    ClientCall("handle_get_versions_response",
               handle_get_versions_response(lsps2_message_handler, calc.supported,
                                            request_id, versions, sender),
               [id |-> request_id, versions |-> versions, sender |-> sender,
                awaiting |-> ChannelsAwaiting(lsps2_message_handler, sender,
                                              request_id, "AwaitingVersions")])

HandleGetInfoResponse ==
  \E request_id \in AwaitedIds(lsps2_message_handler), sender \in Peers :
    ClientCall("handle_get_info_response",
               handle_lsps_message(lsps2_message_handler,
                                   LSPS2Message("Response", request_id, "GetInfo"),
                                   sender),
               [id |-> request_id, sender |-> sender])

OpeningFeeParamsSelectedFor ==
  \E channel_id \in ClientChannels, peer \in Peers :
    ClientCall("opening_fee_params_selected",
               opening_fee_params_selected(lsps2_message_handler, peer, channel_id),
               [user_channel_id |-> channel_id, peer |-> peer])

NextClient ==
  \/ ConstructClient
  \/ CreateInvoice
  \/ HandleGetVersionsResponse
  \/ HandleGetInfoResponse
  \/ OpeningFeeParamsSelectedFor

SpecClient == InitCalc /\ [][NextClient]_vars

\* ------------------------------------------------------------ feature bits
LSPS_FEATURE_BIT == 729

\* Features::empty and Features::set_optional_custom_bit: a set of bit
\* positions; the optional bit of a pair is the odd one.
Features_empty == {}
set_optional_custom_bit(features, bit) == features \cup { bit + (1 - (bit % 2)) }

\* CustomMessageHandler::provided_node_features
provided_node_features(config) ==
  IF config # "none"
  THEN set_optional_custom_bit(Features_empty, LSPS_FEATURE_BIT)
  ELSE Features_empty

\* Mutant: the bit is advertised only when JIT channels are configured.
provided_init_features_jit_only(config, their_node_id) ==
  IF config = "jit"
  THEN set_optional_custom_bit(Features_empty, LSPS_FEATURE_BIT)
  ELSE Features_empty

\* CustomMessageHandler::provided_init_features
provided_init_features(config, their_node_id) ==
  IF config # "none"
  THEN set_optional_custom_bit(Features_empty, LSPS_FEATURE_BIT)
  ELSE Features_empty

\* The features are read; nothing is written.
FeaturesCall(op, features, args) ==
  /\ last' = args @@ [op |-> op, ret |-> "Ok", features |-> features]
  /\ UNCHANGED << provider_config, lsps2_message_handler, pending_messages,
                  pending_events, waiters, request_id_to_method_map, best_block,
                  best_block_poisoned, sent, delivered, emitted, returned,
                  chain_tip, calc >>

ProvidedNodeFeatures ==
  FeaturesCall("provided_node_features", provided_node_features(provider_config),
               [x \in {} |-> 0])

ProvidedInitFeatures ==
  \E their_node_id \in Peers :
    FeaturesCall("provided_init_features",
                 provided_init_features(provider_config, their_node_id),
                 [their_node_id |-> their_node_id])

NextFeatures ==
  \/ Next
  \/ ProvidedNodeFeatures
  \/ ProvidedInitFeatures

SpecFeatures == Init /\ [][NextFeatures]_vars

\* -------------------------------------------------------------------- locks
\* The facade's calls as the lock operations they perform, run by threads.
NumThreads == 2
Threads == 1..NumThreads

Locks == { "state_table", "pending_messages", "request_id_to_method_map" }

Lock(l) == [a |-> "lock", l |-> l]
Unlock(l) == [a |-> "unlock", l |-> l]

\* Mutant: the request is registered in the id map as it is enqueued.
enqueue_message_locking_registering ==
  << Lock("pending_messages"), Lock("request_id_to_method_map"),
     Unlock("request_id_to_method_map"), Unlock("pending_messages") >>

\* LiquidityManager::enqueue_message
enqueue_message_locking ==
  << Lock("pending_messages"), Unlock("pending_messages") >>

\* A protocol handler's critical section: the state table, and inside it
\* the messages it enqueues.
handler_locking ==
  << Lock("state_table") >> \o enqueue_message_locking \o << Unlock("state_table") >>

\* LiquidityManager::handle_lsps_message
handle_lsps_message_locking(variant, configured) ==
  CASE variant = "Invalid" -> << >>
    [] variant = "LSPS0" -> enqueue_message_locking
    [] variant = "LSPS2" -> IF configured THEN handler_locking ELSE << >>

\* CustomMessageHandler::handle_custom_message: the id map is locked for the
\* decoding only.
handle_custom_message_locking(decoded, variant, configured) ==
  << Lock("request_id_to_method_map"), Unlock("request_id_to_method_map") >>
    \o (IF decoded THEN handle_lsps_message_locking(variant, configured)
        ELSE enqueue_message_locking)

\* CustomMessageHandler::get_and_clear_pending_msg: the id map's guard is a
\* local, the queue's a temporary of the draining expression.
get_and_clear_pending_msg_locking ==
  << Lock("request_id_to_method_map"), Lock("pending_messages"),
     Unlock("pending_messages"), Unlock("request_id_to_method_map") >>

\* The public JIT operations, which delegate to the handler when configured
jit_operation_locking(configured) == IF configured THEN handler_locking ELSE << >>

Operations ==
  [handle_custom_message_decode_error |->
     handle_custom_message_locking(FALSE, "Invalid", TRUE),
   handle_custom_message_invalid |->
     handle_custom_message_locking(TRUE, "Invalid", TRUE),
   handle_custom_message_lsps0 |->
     handle_custom_message_locking(TRUE, "LSPS0", TRUE),
   handle_custom_message_lsps2 |->
     handle_custom_message_locking(TRUE, "LSPS2", TRUE),
   get_and_clear_pending_msg |-> get_and_clear_pending_msg_locking,
   enqueue_message |-> enqueue_message_locking,
   jit_operation |-> jit_operation_locking(TRUE)]

Holder(l) == { t \in Threads : \E i \in 1..Len(calc.held[t]) : calc.held[t][i] = l }

\* The threads are started.
StartThreads ==
  /\ calc.op = "none"
  /\ calc' = [op |-> "threads",
              running |-> [t \in Threads |-> "idle"],
              todo |-> [t \in Threads |-> << >>],
              held |-> [t \in Threads |-> << >>]]
  /\ KeepFacade

\* A thread enters an operation.
EnterOperation ==
  \E t \in Threads, name \in DOMAIN Operations :
    /\ calc.op = "threads"
    /\ calc.todo[t] = << >>
    /\ Operations[name] # << >>
    /\ calc' = [calc EXCEPT !.running[t] = name, !.todo[t] = Operations[name]]
    /\ KeepFacade

\* A thread locks the mutex it is at, once no thread holds it.
AcquireLock ==
  \E t \in Threads :
    /\ calc.op = "threads"
    /\ calc.todo[t] # << >>
    /\ Head(calc.todo[t]).a = "lock"
    /\ Holder(Head(calc.todo[t]).l) = {}
    /\ calc' = [calc EXCEPT !.todo[t] = Tail(@),
                            !.held[t] = Append(@, Head(calc.todo[t]).l)]
    /\ KeepFacade

\* A thread drops a guard.
ReleaseLock ==
  \E t \in Threads :
    /\ calc.op = "threads"
    /\ calc.todo[t] # << >>
    /\ Head(calc.todo[t]).a = "unlock"
    /\ calc' = [calc EXCEPT !.todo[t] = Tail(@),
                            !.held[t] = SelectSeq(@, LAMBDA l : l # Head(calc.todo[t]).l)]
    /\ KeepFacade

NextLocks ==
  \/ StartThreads
  \/ EnterOperation
  \/ AcquireLock
  \/ ReleaseLock

SpecLocks == InitCalc /\ [][NextLocks]_vars

\* --------------------------------------------------- connect and disconnect
\* The chain listener's calls with what they were given: the header, the
\* height, the build, and the record as the call found it.
ChainStep(op, r, tip, hash, height, overflow_checks) ==
  ChainCall(op, r, tip,
            [hash |-> hash, height |-> height, overflow_checks |-> overflow_checks,
             before |-> best_block, poisoned |-> best_block_poisoned])

ConnectBlock ==
  \E hash \in BlockHashes \ {0}, height \in Heights :
  \E overflow_checks \in BuildChoices(height) :
    LET header == BlockHeader(hash)
        in_order == /\ header.prev_blockhash = chain_tip.block_hash
                    /\ height = chain_tip.height + 1
    IN  ChainStep("filtered_block_connected",
                  filtered_block_connected(best_block, best_block_poisoned, header,
                                           height, overflow_checks),
                  IF in_order /\ chain_tip.run >= 0
                  THEN [block_hash |-> hash, height |-> height,
                        run |-> chain_tip.run + 1]
                  ELSE [chain_tip EXCEPT !.run = -1],
                  hash, height, overflow_checks)

DisconnectBlock ==
  \E hash \in BlockHashes, height \in Heights :
  \E overflow_checks \in BuildChoices(height) :
    ChainStep("block_disconnected",
              block_disconnected(best_block, best_block_poisoned, BlockHeader(hash),
                                 height, overflow_checks),
              [chain_tip EXCEPT !.run = -1],
              hash, height, overflow_checks)

NextPeel ==
  \/ ConnectBlock
  \/ DisconnectBlock

SpecPeel == Init /\ [][NextPeel]_vars

\* ------------------------------------------------------- two facades talking
\* Two nodes, each running the facade, exchange what their facades enqueue;
\* their embedders only move the messages.
Nodes == { 1, 2 }
OtherNode(n) == 3 - n

RECURSIVE CountInvalid(_)
CountInvalid(out) ==
  IF out = <<>> THEN 0
  ELSE (IF Head(out).msg.variant = "Invalid" THEN 1 ELSE 0) + CountInvalid(Tail(out))

\* Both facades are constructed and node 1 is handed one payload from node 2.
StartPair ==
  \E configured \in [Nodes -> BOOLEAN], payload \in InboundPayloads :
    /\ calc.op = "none"
    /\ calc' = [op |-> "pair",
                handler |-> [n \in Nodes |-> IF configured[n] THEN JITChannelManager_new
                                             ELSE NoHandler],
                map |-> [n \in Nodes |-> EmptyMap],
                queue |-> [n \in Nodes |-> << >>],
                wire |-> [n \in Nodes |-> IF n = 1 THEN << payload >> ELSE << >>],
                injected |-> payload,
                invalids |-> 0,
                handled |-> [node |-> 0]]
    /\ KeepFacade

\* A node's peer manager passes it the next payload from the other node.
PairHandleCustomMessage ==
  \E n \in Nodes :
    /\ calc.op = "pair"
    /\ calc.wire[n] # << >>
    /\ LET r == handle_custom_message(calc.handler[n], calc.map[n],
                                      Head(calc.wire[n]), OtherNode(n))
       IN  calc' = [calc EXCEPT
                      !.wire[n] = Tail(@),
                      !.handler[n] = r.st,
                      !.map[n] = r.map,
                      !.queue[n] = EnqueueAll(@, r.out),
                      !.invalids = @ + CountInvalid(r.out),
                      !.handled = [node |-> n, decoded |-> r.decoded,
                                   variant |-> r.msg.variant, ret |-> r.ret,
                                   out |-> r.out]]
    /\ KeepFacade

\* A node's peer manager drains its outbound queue and transmits the batch.
PairGetAndClearPendingMsg ==
  \E n \in Nodes :
    /\ calc.op = "pair"
    /\ calc.queue[n] # << >>
    /\ LET r == get_and_clear_pending_msg(calc.queue[n], calc.map[n])
       IN  calc' = [calc EXCEPT
                      !.queue[n] = r.queue,
                      !.map[n] = r.map,
                      !.wire[OtherNode(n)] =
                         @ \o [i \in 1..Len(r.batch) |-> r.batch[i].payload]]
    /\ KeepFacade

NextPair ==
  \/ StartPair
  \/ PairHandleCustomMessage
  \/ PairGetAndClearPendingMsg

SpecPair == InitCalc /\ [][NextPair]_vars

\* ------------------------------------------------------------------- claims
JitOperations ==
  { "jit_channel_create_invoice", "opening_fee_params_generated",
    "opening_fee_params_selected", "invoice_parameters_generated" }

QueuesUnchanged ==
  /\ pending_messages' = pending_messages
  /\ pending_events' = pending_events
  /\ request_id_to_method_map' = request_id_to_method_map

\* C1: without a JIT configuration (lsps2_message_handler is None) each of
\* jit_channel_create_invoice, opening_fee_params_generated,
\* opening_fee_params_selected and invoice_parameters_generated returns an
\* APIMisuseError and leaves the outbound queue, the event queue and the id
\* map as they were.
C1_UnconfiguredJitOperationsRejected ==
  [][ (last'.op \in JitOperations /\ ~lsps2_message_handler.some)
        => (last'.ret = "APIMisuseError" /\ QueuesUnchanged) ]_vars

\* C1 witness: opening_fee_params_generated was refused for want of a
\* handler while a message was waiting in the outbound queue.
C1_Witness ==
  /\ ~lsps2_message_handler.some
  /\ last.op = "opening_fee_params_generated"
  /\ last.ret = "APIMisuseError"
  /\ pending_messages # <<>>

\* C2 as claimed: without a JIT configuration htlc_intercepted and
\* channel_ready return an error to the caller and change no state.
C2_UnconfiguredHtlcCallsRejected ==
  [][ (last'.op \in {"htlc_intercepted", "channel_ready"}
       /\ ~lsps2_message_handler.some)
        => (last'.ret = "APIMisuseError" /\ QueuesUnchanged) ]_vars

\* C2 amended: without a JIT configuration htlc_intercepted and
\* channel_ready return Ok(()) and change no state.
C2_UnconfiguredHtlcCallsIgnored ==
  [][ (last'.op \in {"htlc_intercepted", "channel_ready"}
       /\ ~lsps2_message_handler.some)
        => (last'.ret = "Ok" /\ QueuesUnchanged
            /\ lsps2_message_handler' = lsps2_message_handler) ]_vars

\* C2 witness: htlc_intercepted returned Ok without a handler while a
\* message was waiting in the outbound queue.
C2_Witness ==
  /\ ~lsps2_message_handler.some
  /\ last.op = "htlc_intercepted"
  /\ last.ret = "Ok"
  /\ pending_messages # <<>>

\* C3: for a payload that fails to decode, handle_custom_message appends
\* exactly one (sender, Invalid) entry to the outbound queue, returns Ok,
\* calls no protocol handler and pushes no event.
C3_DecodeFailureAnswersInvalid ==
  [][ (last'.op = "handle_custom_message" /\ ~last'.decoded)
        => /\ pending_messages' =
                Append(pending_messages, Out(last'.sender, LSPSMessage_Invalid))
           /\ last'.ret = "Ok"
           /\ pending_events' = pending_events
           /\ lsps2_message_handler' = lsps2_message_handler ]_vars

\* C3 witness: a payload failed to decode and its Invalid reply was
\* enqueued behind an earlier message.
C3_Witness ==
  /\ last.op = "handle_custom_message"
  /\ ~last.decoded
  /\ Len(pending_messages) = 2
  /\ pending_messages[2] = Out(last.sender, LSPSMessage_Invalid)

UnhandledLsps2 ==
  /\ last'.op = "handle_custom_message"
  /\ last'.decoded
  /\ last'.variant = "LSPS2"
  /\ ~lsps2_message_handler.some

\* C4 as claimed: a well-formed LSPS2 message received without an LSPS2
\* handler is answered as a decode failure is, with an Invalid notification
\* enqueued for the sender.
C4_UnhandledLsps2AnswersInvalid ==
  [][ UnhandledLsps2
        => pending_messages' =
             Append(pending_messages, Out(last'.sender, LSPSMessage_Invalid)) ]_vars

\* C4 amended: a well-formed LSPS2 message received without an LSPS2
\* handler enqueues nothing and pushes no event; the call returns a
\* LightningError (ignore and log).
C4_UnhandledLsps2IsIgnored ==
  [][ UnhandledLsps2
        => /\ pending_messages' = pending_messages
           /\ pending_events' = pending_events
           /\ last'.ret = "LightningError" ]_vars

\* C4 witness: an LSPS2 message decoded and was refused for want of a
\* handler.
C4_Witness ==
  /\ last.op = "handle_custom_message"
  /\ last.decoded
  /\ last.variant = "LSPS2"
  /\ ~lsps2_message_handler.some
  /\ last.ret = "LightningError"

\* C5: handle_custom_message returns Ok or a LightningError for every
\* payload and sender, in every reachable state, and never panics; the only
\* calls that panic are filtered_block_connected and block_disconnected.
C5_NoPanicOnRemoteInput ==
  /\ last.op = "handle_custom_message" => last.ret \in {"Ok", "LightningError"}
  /\ last.ret = "panic"
       => last.op \in {"filtered_block_connected", "block_disconnected"}

\* C5 witness: after a chain-order assertion failed and poisoned the
\* best-block lock, an undecodable payload was handled and Ok returned.
C5_Witness ==
  /\ best_block_poisoned
  /\ last.op = "handle_custom_message"
  /\ ~last.decoded
  /\ last.ret = "Ok"

\* C6: after handle_custom_message has processed a response carrying
\* request id r, r is not in the id map, whether or not the body matched the
\* expected response and whether or not the handler accepted it.
C6_ResponseIdRemoved ==
  (last.op = "handle_custom_message" /\ last.response_id # NoId)
    => last.response_id \notin DOMAIN request_id_to_method_map

\* C6 witness: a response whose id was in the map, and whose body did not
\* decode, was processed.
C6_Witness ==
  /\ last.op = "handle_custom_message"
  /\ last.response_id # NoId
  /\ last.known_id
  /\ ~last.decoded

RECURSIVE EncodeAll(_)
EncodeAll(msgs) ==
  IF msgs = <<>> THEN <<>>
  ELSE <<[node_id |-> Head(msgs).node_id, payload |-> Encode(Head(msgs).msg)]>>
         \o EncodeAll(Tail(msgs))

\* C7: every enqueued (peer, message) pair is returned by exactly one
\* get_and_clear_pending_msg call, in enqueue order within and across the
\* returned batches, and the queue is empty when the call returns: what was
\* returned so far, followed by what is queued, is what was enqueued.
C7_OutboundQueueIsFifo ==
  /\ delivered \o EncodeAll(pending_messages) = EncodeAll(sent)
  /\ last.op = "get_and_clear_pending_msg" => pending_messages = <<>>

\* C7 witness: two different messages were enqueued and a drain has returned
\* both of them.
C7_Witness ==
  /\ last.op = "get_and_clear_pending_msg"
  /\ Len(delivered) = 2
  /\ delivered[1] # delivered[2]
  /\ pending_messages = <<>>

\* C8: events come back from get_and_clear_pending_events and from successive
\* wait_next_event calls in the order of their emission, each exactly once:
\* what was returned so far, followed by what is queued, is what was emitted.
C8_EventsInEmissionOrder ==
  returned \o pending_events = emitted

\* C8 witness: two different events were emitted and wait_next_event has
\* returned the second of them.
C8_Witness ==
  /\ last.op = "wait_next_event"
  /\ last.ret = "Ok"
  /\ Len(returned) = 2
  /\ returned[1] # returned[2]

\* C9: a caller blocked in wait_next_event does not stay blocked while the
\* event queue holds an event: it returns, or the events are taken by another
\* consumer.
C9_BlockedWaiterReturns ==
  \A t \in Waiters :
    (waiters[t] \in {"sleeping", "woken"} /\ pending_events # <<>>)
      ~> (waiters[t] = "idle" \/ pending_events = <<>>)

\* C9 witness: an event was pushed while a caller slept in wait_next_event,
\* and the caller was woken.
C9_Witness ==
  /\ last.op = "handle_custom_message"
  /\ pending_events # <<>>
  /\ \E t \in Waiters : waiters[t] = "woken"

\* C10: a filtered_block_connected call that continues a run of in-order
\* connections begun at the configured best block passes the chain-order
\* assertions.
C10_InOrderConnectionsPass ==
  (last.op = "filtered_block_connected" /\ chain_tip.run >= 1)
    => last.ret = "Ok"

\* C10 witness: the second in-order connection after construction panicked.
C10_Witness ==
  /\ last.op = "filtered_block_connected"
  /\ chain_tip.run = 2
  /\ last.ret = "panic"

\* C11: the offer made by into_opening_fee_params(raw, S), unchanged, verifies
\* as valid under S at every time not later than its valid_until.
C11_IssuedOfferVerifies ==
  (/\ calc.op = "is_valid_opening_fee_params"
   /\ ~calc.changed
   /\ calc.key = calc.secret
   /\ NotAfter(calc.now, calc.raw.valid_until))
    => calc.valid

\* C11 witness: an offer was issued and verified under the issuing secret at
\* the very instant of its valid_until, which has a fraction of a second.
C11_Witness ==
  /\ calc.op = "is_valid_opening_fee_params"
  /\ ~calc.changed
  /\ calc.key = calc.secret
  /\ calc.now = calc.raw.valid_until
  /\ calc.raw.valid_until.tenths # 0
  /\ calc.valid

\* C12: verification succeeds only if the offer's five fields are the ones
\* the promise was made for and the secret is the issuing one: after one field
\* was changed with the promise left alone, or under another secret, it fails.
C12_TamperedOrForeignOfferFails ==
  (calc.op = "is_valid_opening_fee_params" /\ calc.valid)
    => /\ ~calc.changed
       /\ \A field \in OfferFields : calc.offer[field] = calc.raw[field]
       /\ calc.key = calc.secret

\* C12 witness: an unexpired offer whose valid_until alone was changed failed
\* verification under the issuing secret.
C12_Witness ==
  /\ calc.op = "is_valid_opening_fee_params"
  /\ calc.changed
  /\ calc.offer.valid_until # calc.raw.valid_until
  /\ calc.key = calc.secret
  /\ NotAfter(calc.now, calc.offer.valid_until)
  /\ ~calc.valid

\* C13: an offer whose valid_until is earlier than the current time fails
\* verification, also when its promise is the right one under the secret.
C13_ExpiredOfferFails ==
  (/\ calc.op = "is_valid_opening_fee_params"
   /\ ~NotAfter(calc.now, calc.offer.valid_until))
    => ~calc.valid

\* C13 witness: an unchanged offer was verified under the issuing secret
\* after its valid_until, and failed.
C13_Witness ==
  /\ calc.op = "is_valid_opening_fee_params"
  /\ ~calc.changed
  /\ calc.key = calc.secret
  /\ ~NotAfter(calc.now, calc.offer.valid_until)
  /\ ~calc.valid

\* A well-formed SCID string: three components separated by "x", each the
\* plain decimal numeral (digits only, no padding) of a value within its
\* field's width.
PlainNumeral(chars, bits) ==
  /\ chars # <<>>
  /\ \A i \in 1..Len(chars) : chars[i] \in 48..57
  /\ Len(chars) > 1 => chars[1] # 48
  /\ DecimalValue(chars, 0) < 2 ^ bits

WellFormedScid(text) ==
  LET parts == SplitX(text, <<>>)
  IN  /\ Len(parts) = 3
      /\ PlainNumeral(parts[1], BlockBits)
      /\ PlainNumeral(parts[2], TxIndexBits)
      /\ PlainNumeral(parts[3], VoutBits)

\* C14: the SCID conversion is a round trip in both directions: to_scid of
\* JitChannelScid::from(x) is Ok(x), the text being block, tx_index and vout
\* (high, middle and low bits of x) in decimal with "x" between them; and a
\* well-formed string that is parsed and formatted again comes back the same.
C14_ScidRoundTrip ==
  /\ (calc.op = "to_scid" /\ calc.of.op = "JitChannelScid::from")
       => /\ calc.result = [ok |-> TRUE, value |-> calc.of.scid]
          /\ \E b \in 0..(2 ^ BlockBits - 1), t \in 0..(2 ^ TxIndexBits - 1),
                v \in 0..(2 ^ VoutBits - 1) :
               /\ calc.of.scid = (b * (2 ^ TxIndexBits) + t) * (2 ^ VoutBits) + v
               /\ calc.of.text = Digits(b) \o << 120 >> \o Digits(t)
                                   \o << 120 >> \o Digits(v)
  /\ (calc.op = "to_scid" /\ WellFormedScid(calc.of.text)) => calc.result.ok
  /\ (/\ calc.op = "JitChannelScid::from(to_scid)"
      /\ calc.of.op = "JitChannelScid::deserialize"
      /\ WellFormedScid(calc.of.text))
       => calc.text = calc.of.text

\* C14 witness: a received well-formed string with a two-digit component and
\* three different components was parsed and formatted again.
C14_Witness ==
  /\ calc.op = "JitChannelScid::from(to_scid)"
  /\ calc.of.op = "JitChannelScid::deserialize"
  /\ WellFormedScid(calc.of.text)
  /\ block_from_scid(calc.scid) >= 10
  /\ tx_index_from_scid(calc.scid) # vout_from_scid(calc.scid)
  /\ tx_index_from_scid(calc.scid) # block_from_scid(calc.scid)

\* The optional fields of the request types
OptionalFields(type) ==
  IF type = "GetInfoRequest" THEN {"token"}
  ELSE IF type = "BuyRequest" THEN {"payment_size_msat"}
  ELSE {}

\* C15: in every encoded LSPS2 request an optional field that is absent is
\* left out of the JSON object, and no member is null; so for
\* BuyRequest.payment_size_msat and so for GetInfoRequest.token.
C15_AbsentOptionalFieldsOmitted ==
  calc.op = "serialize"
    => /\ \A k \in DOMAIN calc.json.members : calc.json.members[k] # JsonNull
       /\ \A k \in OptionalFields(calc.type) :
            ~calc.request[k].some => k \notin DOMAIN calc.json.members

\* The half of C15 that speaks of BuyRequest alone.
C15_BuyRequestOmitsAbsentPaymentSize ==
  (calc.op = "serialize" /\ calc.type = "BuyRequest")
    => /\ \A k \in DOMAIN calc.json.members : calc.json.members[k] # JsonNull
       /\ ~calc.request.payment_size_msat.some
            => "payment_size_msat" \notin DOMAIN calc.json.members

\* C15 witness: a GetInfoRequest without a token was encoded with a null
\* "token" member.
C15_Witness ==
  /\ calc.op = "serialize"
  /\ calc.type = "GetInfoRequest"
  /\ ~calc.request.token.some
  /\ "token" \in DOMAIN calc.json.members
  /\ calc.json.members["token"] = JsonNull

\* C16: the opening fee the client owes for payment size p under an offer is
\* max(min_fee_msat, ceil(proportional * p / 1_000_000)) millisatoshi, the
\* product and the rounding exact (the ceiling of a / b is (a + b - 1) div b).
C16_OpeningFeeIsCeiling ==
  calc.op = "opening_fee"
    => calc.fee = Max(calc.min_fee_msat,
                      (calc.proportional * calc.payment_size_msat + (PPM_DIVISOR - 1))
                        \div PPM_DIVISOR)

\* C16 witness: a payment of 999_999 msat under a proportional fee, for which
\* the fee agreed to is the minimum fee and the ceiling is more.
C16_Witness ==
  /\ calc.op = "opening_fee"
  /\ calc.payment_size_msat = PPM_DIVISOR - 1
  /\ calc.proportional > calc.min_fee_msat
  /\ calc.fee = calc.min_fee_msat

\* An OpenChannel event was pushed for id.
OpenChannelEmitted(events, id) ==
  \E i \in 1..Len(events) : events[i].t = "OpenChannel" /\ events[i].ref = id

C18_ForwardOnlyAfterOpenChannel ==
  /\ calc.op = "issued"
       => /\ \A i \in 1..Len(calc.htlcs) :
               calc.htlcs[i].effect = "forward_intercepted_htlc"
                 => OpenChannelEmitted(emitted, calc.htlcs[i].scid)
          /\ \A i, j \in 1..Len(calc.htlcs) :
               calc.htlcs[i].scid = calc.htlcs[j].scid => i = j
  /\ last.op = "channel_ready"
       => /\ last.htlc # "fail_intercepted_htlc"
          /\ ~OpenChannelEmitted(emitted, last.id)
               => last.htlc = "none" /\ ~last.changed
  /\ (last.op = "htlc_intercepted") => last.htlc # "forward_intercepted_htlc"

\* C18 witness: the HTLC of a record was forwarded by channel_ready, after
\* its OpenChannel event.
C18_Witness ==
  /\ last.op = "channel_ready"
  /\ last.htlc = "forward_intercepted_htlc"
  /\ OpenChannelEmitted(emitted, last.id)
  /\ calc.htlcs = << [scid |-> last.id, effect |-> "forward_intercepted_htlc"] >>

\* What a buy request is refused for, under the LSP's configuration
BuyVersionUnsupported(request) == request.version # 1

\* (an offer's promise is invalid when it was made under another secret)
BuyOfferInvalid(request, issued_under, config, now) ==
  \/ ~NotAfter(now, request.opening_fee_params.valid_until)
  \/ issued_under # config.promise_secret

BuyTooSmall(request, config) ==
  /\ request.payment_size_msat.some
  /\ request.payment_size_msat.value < config.min_payment_size_msat

BuyTooLarge(request, config) ==
  /\ request.payment_size_msat.some
  /\ request.payment_size_msat.value > config.max_payment_size_msat

BuyErrorCodes(out) ==
  { out[i].msg.code : i \in { j \in 1..Len(out) : out[j].msg.body = "BuyError" } }

\* C19: a buy request is answered with error code 1 only when its version is
\* unsupported, 2 only when its offer has an invalid promise or is expired,
\* 3 only when its payment size is below the configured minimum and 4 only
\* when it is above the configured maximum; when any of these applies the
\* request is answered with one such error, no BuyRequest event is pushed
\* and no record is kept; a BuyRequest event is pushed only when none applies.
C19_BuyRequestRefusedWithCode ==
  /\ last.op = "handle_buy_request" =>
       LET request == last.request
           config == calc.config
           codes == BuyErrorCodes(last.out)
           refused == \/ BuyVersionUnsupported(request)
                      \/ BuyOfferInvalid(request, last.issued_under, config, last.now)
                      \/ BuyTooSmall(request, config)
                      \/ BuyTooLarge(request, config)
           key == <<last.sender, last.id>>
       IN  /\ codes \subseteq 1..4
           /\ 1 \in codes => BuyVersionUnsupported(request)
           /\ 2 \in codes => BuyOfferInvalid(request, last.issued_under, config, last.now)
           /\ 3 \in codes => BuyTooSmall(request, config)
           /\ 4 \in codes => BuyTooLarge(request, config)
           /\ refused => /\ Cardinality(codes) = 1
                         /\ Len(last.out) = 1
                         /\ last.out[1].node_id = last.sender
                         /\ last.out[1].msg.id = last.id
                         /\ last.events = <<>>
                         /\ key \notin DOMAIN lsps2_message_handler.requests
           /\ ~refused => /\ last.out = <<>>
                          /\ last.events = << Event("BuyRequest", last.sender, last.id) >>
  /\ (last.op = "invoice_parameters_generated" /\ last.refused)
       => last.ret = "APIMisuseError" /\ last.out = <<>>

\* C19 witness: a request with a supported version and a valid offer was
\* refused for a payment size below the minimum, and the embedder's answer
\* to it found no record.
C19_Witness ==
  /\ last.op = "invoice_parameters_generated"
  /\ last.refused
  /\ last.ret = "APIMisuseError"
  /\ ~BuyVersionUnsupported(last.request)
  /\ ~BuyOfferInvalid(last.request, last.issued_under, calc.config, last.now)
  /\ BuyTooSmall(last.request, calc.config)
  /\ sent = << Out(last.sender, BuyError(last.id, 3)) >>

\* A request of the client for channel c, and an event about it
SentFor(c, body) ==
  \E i \in 1..Len(sent) :
    /\ sent[i].msg.kind = "Request"
    /\ sent[i].msg.body = body
    /\ calc.requests[sent[i].msg.id] = c

EmittedFor(c, t) ==
  \E i \in 1..Len(emitted) : emitted[i].t = t /\ emitted[i].ref = c

\* C20: a get_versions response that shares no version with the client's
\* supported set makes the client push a failure event for the channel and
\* send nothing, and no get_info or buy is ever sent for a channel that
\* failed; a response that shares one is followed by a get_info with the
\* highest common version; and a buy has been sent for a channel only if its
\* get_info response was received and opening_fee_params_selected was called.
C20_VersionNegotiation ==
  calc.op = "client" =>
    /\ (last.op = "handle_get_versions_response" /\ last.awaiting # {}) =>
         LET common == calc.supported \cap last.versions
         IN  IF common = {}
             THEN /\ last.out = <<>>
                  /\ Len(last.events) = 1
                  /\ last.events[1].t = "Failed"
                  /\ last.events[1].ref \in last.awaiting
                  /\ last.events[1].ref \notin DOMAIN lsps2_message_handler.channels
             ELSE /\ last.events = <<>>
                  /\ Len(last.out) = 1
                  /\ last.out[1].node_id = last.sender
                  /\ last.out[1].msg.kind = "Request"
                  /\ last.out[1].msg.body = "GetInfo"
                  /\ last.out[1].msg.version \in common
                  /\ \A v \in common : v <= last.out[1].msg.version
    /\ \A c \in ClientChannels :
         /\ EmittedFor(c, "Failed") => ~SentFor(c, "GetInfo") /\ ~SentFor(c, "Buy")
         /\ SentFor(c, "Buy") => /\ SentFor(c, "GetInfo")
                                 /\ EmittedFor(c, "GetInfoResponse")
                                 /\ "handle_get_info_response" \in calc.called
                                 /\ "opening_fee_params_selected" \in calc.called

\* C20 witness: with two versions in common the client went on with the
\* higher one and came to send a buy for one channel, while the other
\* channel failed on a response with no common version.
C20_Witness ==
  /\ calc.op = "client"
  /\ calc.supported = Versions
  /\ last.op = "opening_fee_params_selected"
  /\ \E c, d \in ClientChannels :
       /\ EmittedFor(c, "Failed")
       /\ ~SentFor(c, "GetInfo")
       /\ SentFor(d, "Buy")
       /\ EmittedFor(d, "GetInfoResponse")
  /\ \E i \in 1..Len(sent) :
       /\ sent[i].msg.body = "GetInfo"
       /\ sent[i].msg.kind = "Request"
       /\ sent[i].msg.version = MaxVersion

\* C21: the node features and the init features read at any time, for any
\* peer, hold bit 729 exactly when a provider configuration was given at
\* construction, and hold no other bit.
C21_FeatureBitIffProviderConfig ==
  last.op \in {"provided_node_features", "provided_init_features"} =>
    /\ (729 \in last.features) <=> (provider_config # "none")
    /\ last.features \subseteq { 729 }

\* C21 witness: the init features read for a peer after the facade has sent
\* messages, under a provider configuration without JIT channels.
C21_Witness ==
  /\ last.op = "provided_init_features"
  /\ provider_config = "no_jit"
  /\ last.features = { 729 }
  /\ sent # <<>>

\* The ids of the requests handed out for transmission
TransmittedRequestIds(batch) ==
  { batch[i].payload.id :
      i \in { j \in 1..Len(batch) : batch[j].payload.method \in KnownMethods } }

LockRank(l) ==
  CASE l = "state_table" -> 1
    [] l = "pending_messages" -> 2
    [] l = "request_id_to_method_map" -> 3

\* C23: a thread holding two of the locks acquired them in the order state
\* table, outbound queue, id map; get_and_clear_pending_msg holds the
\* outbound queue before it takes the id map.
C23_LocksTakenInOrder ==
  calc.op = "threads" =>
    \A t \in Threads :
      \A i, j \in 1..Len(calc.held[t]) :
        i < j => LockRank(calc.held[t][i]) < LockRank(calc.held[t][j])

\* C23 witness: get_and_clear_pending_msg holds the id map and the outbound
\* queue at once.
C23_Witness ==
  /\ calc.op = "threads"
  /\ \E t \in Threads :
       /\ calc.running[t] = "get_and_clear_pending_msg"
       /\ Len(calc.held[t]) = 2

\* A thread waits for a lock another thread holds
WaitsFor(t, u) ==
  /\ t # u
  /\ calc.todo[t] # << >>
  /\ Head(calc.todo[t]).a = "lock"
  /\ u \in Holder(Head(calc.todo[t]).l)

\* C25: there is no set of threads each of which holds one of the locks and
\* waits for a lock held by a thread of the set.
C25_NoDeadlock ==
  calc.op = "threads" =>
    ~ \E S \in SUBSET Threads :
        /\ S # {}
        /\ \A t \in S : /\ calc.held[t] # << >>
                        /\ \E u \in S : WaitsFor(t, u)

\* C25 witness: a thread holding the state table waits for the outbound
\* queue, held by a thread inside get_and_clear_pending_msg.
C25_Witness ==
  /\ calc.op = "threads"
  /\ \E t, u \in Threads :
       /\ WaitsFor(t, u)
       /\ calc.held[t] = << "state_table" >>
       /\ calc.running[u] = "get_and_clear_pending_msg"
       /\ Len(calc.held[u]) = 2

\* The header and height given are those of the recorded best block
PeelsRecord(hash, height, record) ==
  hash = record.block_hash /\ height = record.height

\* block_disconnected alone: with the recorded best block's header and
\* height (above 0, the lock not poisoned) the record becomes
\* (prev_blockhash, height - 1); with any other header or height the call
\* panics and the record stays.
C24_DisconnectOfRecordedBlock ==
  [][ last'.op = "block_disconnected" =>
        IF PeelsRecord(last'.hash, last'.height, best_block)
        THEN (last'.height >= 1 /\ ~best_block_poisoned) =>
               /\ last'.ret = "Ok"
               /\ best_block' = BestBlock(BlockHeader(last'.hash).prev_blockhash,
                                          last'.height - 1)
        ELSE /\ last'.ret = "panic"
             /\ best_block' = best_block
    ]_vars

\* C24: block_disconnected with the recorded best block's header and height
\* sets the record to (prev_blockhash, height - 1) and changes nothing else,
\* with any other header or height it panics and leaves the record; and a
\* block that was connected and is then disconnected is disconnected
\* successfully, the record being again what it was before the connection.
C24_ConnectThenDisconnectRestores ==
  [][ last'.op = "block_disconnected" =>
        /\ IF PeelsRecord(last'.hash, last'.height, best_block)
           THEN (last'.height >= 1 /\ ~best_block_poisoned) =>
                  /\ last'.ret = "Ok"
                  /\ best_block' = BestBlock(BlockHeader(last'.hash).prev_blockhash,
                                             last'.height - 1)
           ELSE /\ last'.ret = "panic"
                /\ best_block' = best_block
        /\ UNCHANGED << lsps2_message_handler, pending_messages, pending_events,
                        request_id_to_method_map >>
        /\ ( /\ last.op = "filtered_block_connected"
             /\ last.ret = "Ok"
             /\ last'.hash = last.hash
             /\ last'.height = last.height )
             => /\ last'.ret = "Ok"
                /\ best_block' = last.before
    ]_vars

\* C24 witness: a block was connected on the recorded best block and the same
\* block is then disconnected.
C24_Witness ==
  /\ last.op = "block_disconnected"
  /\ last.before = BestBlock(0, 0)
  /\ last.hash = 1
  /\ last.height = 1
  /\ chain_tip = [block_hash |-> 1, height |-> 1, run |-> -1]
  /\ best_block = BestBlock(0, 0)

\* C26: a payload that decodes to the Invalid marker is handled without
\* anything being enqueued, the call returning an error; and after one
\* undecodable payload between two facades at most one Invalid notification
\* is ever enqueued.
C26_InvalidIsNotAnswered ==
  calc.op = "pair" =>
    /\ (calc.handled.node # 0 /\ calc.handled.decoded
          /\ calc.handled.variant = "Invalid")
         => calc.handled.out = << >> /\ calc.handled.ret = "LightningError"
    /\ ~from_str_with_id_map(calc.injected, EmptyMap).ok => calc.invalids <= 1

\* C26 witness: the undecodable payload was answered with an Invalid, which
\* the other facade decoded and left unanswered; nothing is in flight.
C26_Witness ==
  /\ calc.op = "pair"
  /\ ~from_str_with_id_map(calc.injected, EmptyMap).ok
  /\ calc.invalids = 1
  /\ calc.handled.node = 2
  /\ calc.handled.decoded
  /\ calc.handled.variant = "Invalid"
  /\ \A n \in Nodes : calc.wire[n] = << >> /\ calc.queue[n] = << >>

\* The peers a request with this id was handed out for
TransmittedTo(batch, id) ==
  { batch[i].node_id :
      i \in { j \in 1..Len(batch) : /\ batch[j].payload.method \in KnownMethods
                                    /\ batch[j].payload.id = id } }

\* C27 as stated: a response-shaped message carrying the id of a request
\* transmitted to another peer leaves the id map's entry in place.
C27_EntryConsumedOnlyByItsPeer ==
  [][ ( /\ last'.op = "handle_custom_message"
        /\ last'.response_id \in DOMAIN request_id_to_method_map
        /\ TransmittedTo(delivered, last'.response_id) # {}
        /\ last'.sender \notin TransmittedTo(delivered, last'.response_id) )
        => last'.response_id \in DOMAIN request_id_to_method_map'
    ]_vars

\* C27, amended: the entry of a transmitted request is consumed by the first
\* response-shaped message carrying its id, whichever peer sends it; a later
\* message with that id, the genuine response included, is not decoded and
\* is answered with an Invalid to its sender.
C27_EntryConsumedByAnyPeer ==
  [][ ( /\ last'.op = "handle_custom_message"
        /\ last'.response_id # NoId
        /\ TransmittedTo(delivered, last'.response_id) # {} )
        => IF last'.response_id \in DOMAIN request_id_to_method_map
           THEN last'.response_id \notin DOMAIN request_id_to_method_map'
           ELSE /\ ~last'.decoded
                /\ last'.ret = "Ok"
                /\ sent' = Append(sent, Out(last'.sender, LSPSMessage_Invalid))
                /\ request_id_to_method_map' = request_id_to_method_map
    ]_vars

\* C27 witness: the request went to peer 1, a response-shaped message from
\* another peer consumed its entry without an answer, and the message with
\* that id from peer 1 was then answered with an Invalid.
C27_Witness ==
  /\ last.op = "handle_custom_message"
  /\ last.sender = 1
  /\ last.response_id = 1
  /\ ~last.known_id
  /\ ~last.decoded
  /\ TransmittedTo(delivered, 1) = { 1 }
  /\ Len(sent) = 2
  /\ sent[1].msg.kind = "Request"
  /\ sent[1].node_id = 1
  /\ sent[2] = Out(1, LSPSMessage_Invalid)

====
